---- MODULE Spec2Model ----
(***************************************************************************)
(* A model of Handy's command layer: the global-shortcut commands of       *)
(* src-tauri/src/shortcut/mod.rs, the commands of                          *)
(* src-tauri/src/commands/mod.rs and the settings store of                 *)
(* src-tauri/src/settings.rs.  The session pipeline and the handy_keys     *)
(* backend are not part of the sources at hand; they are modelled from the *)
(* written specification and are marked as such where they are defined.    *)
(***************************************************************************)
EXTENDS Integers, Sequences, FiniteSets, TLC

VARIABLES
    sessions,     \* the Sessions that exist: identity -> Session
    created,      \* the number of Sessions created so far
    inflight,     \* stage calls running off the controller: [sid, stage]
    settings,     \* the stored AppSettings value (settings_store.json)
    registered,   \* the live OS registrations: binding id -> combination
    platform,     \* the target the binary was built for
    resources,    \* what the process holds: the managed EnigoState, the model
    running,      \* command invocations and how far each has got
    last          \* the last command: its inputs, its result, the state before

vars == <<sessions, created, inflight, settings, registered, platform,
          resources, running, last>>

(***************************************************************************)
(* Bounds of the model.                                                    *)
(***************************************************************************)
MaxSessions == 2
MaxText == 3
MaxRefs == 2
MaxAdded == 2
MaxIdle == 125
MaxAudio == 1
MaxCalls == 2

NONE == "<none>"

\* No command invocation has been made.
NoCalls == <<>>

(***************************************************************************)
(* Key combinations.  validate_shortcut is a syntactic check of the chord. *)
(***************************************************************************)
ValidChords == {"ctrl+space", "escape"}
InvalidChords == {"ctrl+"}
Chords == ValidChords \cup InvalidChords

BindingIds == {"transcribe", "cancel"}
UnknownIds == {"missing"}

\* settings.rs get_default_settings: the default shortcut of the build target
\* and the two bindings of the default settings.
default_shortcut(target) ==
    IF target = "macos_aarch64" THEN "option+space" ELSE "ctrl+space"

DefaultBindings(target) ==
    [id \in BindingIds |->
        IF id = "transcribe"
        THEN [id |-> "transcribe", default_binding |-> default_shortcut(target),
              current_binding |-> default_shortcut(target)]
        ELSE [id |-> "cancel", default_binding |-> "escape",
              current_binding |-> "escape"]]

(***************************************************************************)
(* The handy_keys backend (shortcut/handy_keys.rs), modelled from section  *)
(* 4.2 of the specification.  A backend call returns a result and the      *)
(* registrations it leaves.                                                *)
(***************************************************************************)
BackendOk(reg) == [ok |-> TRUE, err |-> "", reg |-> reg]
BackendErr(e, reg) == [ok |-> FALSE, err |-> e, reg |-> reg]

handy_keys_validate_shortcut(chord) ==
    IF chord \in ValidChords
    THEN [ok |-> TRUE, err |-> ""]
    ELSE [ok |-> FALSE, err |-> "ValidationError"]

handy_keys_register_shortcut_noconflict(reg, binding) ==
    IF ~handy_keys_validate_shortcut(binding.current_binding).ok
    THEN BackendErr("ValidationError", reg)
    ELSE BackendOk([reg EXCEPT ![binding.id] = binding.current_binding])

handy_keys_register_shortcut(reg, binding) ==
    IF ~handy_keys_validate_shortcut(binding.current_binding).ok
    THEN BackendErr("ValidationError", reg)
    ELSE IF \E other \in DOMAIN reg \ {binding.id} :
                reg[other] = binding.current_binding
    THEN BackendErr("ShortcutConflict", reg)
    ELSE BackendOk([reg EXCEPT ![binding.id] = binding.current_binding])

handy_keys_unregister_shortcut(reg, binding) ==
    BackendOk([reg EXCEPT ![binding.id] = NONE])

\* handy_keys::register_cancel_shortcut returns nothing: a failure is dropped.
handy_keys_register_cancel_shortcut(reg, stg) ==
    handy_keys_register_shortcut(reg, stg.bindings["cancel"]).reg

handy_keys_unregister_cancel_shortcut(reg, stg) ==
    handy_keys_unregister_shortcut(reg, stg.bindings["cancel"]).reg

(***************************************************************************)
(* shortcut/mod.rs: the wrappers over the backend.                         *)
(***************************************************************************)
register_cancel_shortcut(reg, stg) == handy_keys_register_cancel_shortcut(reg, stg)

unregister_cancel_shortcut(reg, stg) == handy_keys_unregister_cancel_shortcut(reg, stg)

register_shortcut(reg, binding) == handy_keys_register_shortcut(reg, binding)

unregister_shortcut(reg, binding) == handy_keys_unregister_shortcut(reg, binding)

(***************************************************************************)
(* Text.  A string is a sequence of characters; the placeholder ${output}  *)
(* of a prompt is one element, the other characters never spell it.        *)
(***************************************************************************)
PLACEHOLDER == "${output}"
Whitespace == {" "}
Digits == {"0", "1", "2", "3", "4", "5", "6", "7", "8", "9"}

RECURSIVE trim_start(_)
trim_start(s) ==
    IF s # <<>> /\ Head(s) \in Whitespace THEN trim_start(Tail(s)) ELSE s

RECURSIVE trim_end(_)
trim_end(s) ==
    IF s # <<>> /\ s[Len(s)] \in Whitespace
    THEN trim_end(SubSeq(s, 1, Len(s) - 1))
    ELSE s

\* str::trim
trim(s) == trim_end(trim_start(s))

(***************************************************************************)
(* settings.rs: the defaults.                                              *)
(***************************************************************************)
APPLE_INTELLIGENCE_PROVIDER_ID == "apple_intelligence"
APPLE_INTELLIGENCE_DEFAULT_MODEL_ID == <<"A", "I">>

Platforms == {"macos_aarch64", "other"}

Provider(id, label) == [id |-> id, label |-> label]

default_post_process_providers(target) ==
    <<Provider("openai", "OpenAI"), Provider("openrouter", "OpenRouter"),
      Provider("anthropic", "Anthropic"), Provider("groq", "Groq"),
      Provider("cerebras", "Cerebras")>>
    \o (IF target = "macos_aarch64"
        THEN <<Provider(APPLE_INTELLIGENCE_PROVIDER_ID, "Apple Intelligence")>>
        ELSE <<>>)
    \o <<Provider("lm_studio", "LM Studio"), Provider("custom", "Custom")>>

default_model_for_provider(provider_id) ==
    IF provider_id = APPLE_INTELLIGENCE_PROVIDER_ID
    THEN APPLE_INTELLIGENCE_DEFAULT_MODEL_ID
    ELSE <<>>

SeqRange(s) == {s[i] : i \in 1..Len(s)}

default_post_process_api_keys(target) ==
    [id \in {p.id : p \in SeqRange(default_post_process_providers(target))} |-> <<>>]

default_post_process_models(target) ==
    [id \in {p.id : p \in SeqRange(default_post_process_providers(target))} |->
        default_model_for_provider(id)]

LLMPrompt(id, text) == [id |-> id, prompt |-> text]

\* Every built-in prompt is some instruction text followed by the placeholder.
default_post_process_prompts ==
    <<LLMPrompt("default_improve_transcriptions", <<"a", PLACEHOLDER>>),
      LLMPrompt("beautiful_prompts", <<"b", PLACEHOLDER, "b">>),
      LLMPrompt("everyday_messaging", <<"c", PLACEHOLDER, "c">>),
      LLMPrompt("professional_email", <<"d", PLACEHOLDER, "d">>),
      LLMPrompt("bullet_points", <<"e", PLACEHOLDER, "e">>),
      LLMPrompt("social_media_post", <<"f", PLACEHOLDER, "f">>),
      LLMPrompt("meeting_minutes", <<"g", PLACEHOLDER, "g">>),
      LLMPrompt("eli5", <<"h", PLACEHOLDER, "h">>),
      LLMPrompt("code_expert", <<"i", PLACEHOLDER, "i">>),
      LLMPrompt("strict_proofread", <<"j", PLACEHOLDER, "j">>)>>

\* HashMap::insert
Insert(map, key, value) ==
    [k \in DOMAIN map \cup {key} |-> IF k = key THEN value ELSE map[k]]

RECURSIVE ensure_providers(_, _)
ensure_providers(stg, todo) ==
    IF todo = <<>> THEN stg
    ELSE LET provider == Head(todo)
             s1 == IF \A i \in 1..Len(stg.post_process_providers) :
                          stg.post_process_providers[i].id # provider.id
                   THEN [stg EXCEPT !.post_process_providers = Append(@, provider)]
                   ELSE stg
             s2 == IF provider.id \notin DOMAIN s1.post_process_api_keys
                   THEN [s1 EXCEPT !.post_process_api_keys =
                                       Insert(@, provider.id, <<>>)]
                   ELSE s1
             default_model == default_model_for_provider(provider.id)
             s3 == IF provider.id \in DOMAIN s2.post_process_models
                   THEN IF s2.post_process_models[provider.id] = <<>>
                           /\ default_model # <<>>
                        THEN [s2 EXCEPT !.post_process_models[provider.id] =
                                            default_model]
                        ELSE s2
                   ELSE [s2 EXCEPT !.post_process_models =
                                       Insert(@, provider.id, default_model)]
         IN ensure_providers(s3, Tail(todo))

RECURSIVE ensure_prompts(_, _)
ensure_prompts(stg, todo) ==
    IF todo = <<>> THEN stg
    ELSE LET prompt == Head(todo)
             s1 == IF \A i \in 1..Len(stg.post_process_prompts) :
                          stg.post_process_prompts[i].id # prompt.id
                   THEN [stg EXCEPT !.post_process_prompts = Append(@, prompt)]
                   ELSE stg
         IN ensure_prompts(s1, Tail(todo))

\* The settings value ensure_post_process_defaults leaves in place.
ensure_post_process_defaults(stg, target) ==
    ensure_prompts(ensure_providers(stg, default_post_process_providers(target)),
                   default_post_process_prompts)

SoundTheme == {"Marimba", "Pop", "Custom"}
OverlayPosition == {"None", "Top", "Bottom"}
PasteMethod == {"CtrlV", "Direct", "None", "ShiftInsert", "CtrlShiftV"}
ClipboardHandling == {"DontModify", "CopyToClipboard"}

default_sound_theme == "Marimba"

default_overlay_position(target) ==
    IF target = "linux" THEN "None" ELSE "Bottom"

PasteMethod_default == "CtrlV"

ClipboardHandling_default == "DontModify"

get_default_settings(target) ==
    [bindings |-> DefaultBindings(target),
     push_to_talk |-> TRUE,
     audio_feedback |-> FALSE,
     sound_theme |-> default_sound_theme,
     overlay_position |-> default_overlay_position(target),
     paste_method |-> PasteMethod_default,
     clipboard_handling |-> ClipboardHandling_default,
     post_process_enabled |-> FALSE,
     post_process_provider_id |-> "openai",
     post_process_providers |-> default_post_process_providers(target),
     post_process_api_keys |-> default_post_process_api_keys(target),
     post_process_models |-> default_post_process_models(target),
     post_process_prompts |-> default_post_process_prompts,
     post_process_selected_prompt_id |-> <<>>,
     post_process_custom_models |-> << >>,
     model_unload_timeout |-> "Never"]

(***************************************************************************)
(* settings.rs: the store.  get_settings reads the stored value, completes *)
(* it with the missing defaults and stores the completed value back;       *)
(* write_settings replaces the stored value as a whole.                    *)
(***************************************************************************)
get_settings(store, target) == ensure_post_process_defaults(store, target)

write_settings(store, value) == value

get_bindings(store, target) == get_settings(store, target).bindings

active_post_process_provider(stg) ==
    LET found == SelectSeq(stg.post_process_providers,
                           LAMBDA p : p.id = stg.post_process_provider_id)
    IN IF found = <<>> THEN <<>> ELSE <<Head(found)>>

(***************************************************************************)
(* shortcut/mod.rs: the binding commands.  A command takes the world       *)
(* w = [settings, registered] and returns the world it leaves, its result  *)
(* and the backend calls it made, in order.                                *)
(***************************************************************************)
World == [settings |-> settings, registered |-> registered, platform |-> platform]

\* Ok(BindingResponse { success, binding, error }) and Err(e) of change_binding
ResponseOk(b) ==
    [kind |-> "Ok", success |-> TRUE, binding |-> <<b>>, error |-> ""]
ResponseFailed(msg) ==
    [kind |-> "Ok", success |-> FALSE, binding |-> <<>>, error |-> msg]
ResultErr(e) ==
    [kind |-> "Err", success |-> FALSE, binding |-> <<>>, error |-> e]
ResultPanic ==
    [kind |-> "Panic", success |-> FALSE, binding |-> <<>>, error |-> "unwrap on None"]
UnitOk == [kind |-> "Ok", success |-> TRUE, binding |-> <<>>, error |-> ""]

Outcome(stg, reg, res, calls) ==
    [settings |-> stg, registered |-> reg, result |-> res, calls |-> calls]

\* A backend call a command made, and whether it succeeded.
Call(name, ok) == [call |-> name, ok |-> ok]

\* change_binding without the branch for the cancel binding
change_binding_uniform(w, id, binding) ==
    LET stg == get_settings(w.settings, w.platform) IN
    IF id \notin DOMAIN stg.bindings
    THEN Outcome(stg, w.registered,
                 ResponseFailed("Binding with id '" \o id \o "' not found"), <<>>)
    ELSE LET binding_to_modify == stg.bindings[id]
             u == unregister_shortcut(w.registered, binding_to_modify)
             v == handy_keys_validate_shortcut(binding)
         IN IF ~v.ok
            THEN Outcome(stg, u.reg, ResultErr(v.err),
                         <<Call("unregister", u.ok), Call("validate", v.ok)>>)
            ELSE LET updated_binding ==
                         [binding_to_modify EXCEPT !.current_binding = binding]
                     r == register_shortcut(u.reg, updated_binding)
                 IN IF ~r.ok
                    THEN Outcome(stg, r.reg,
                                 ResponseFailed("Failed to register shortcut: " \o r.err),
                                 <<Call("unregister", u.ok), Call("validate", v.ok),
                                   Call("register", r.ok)>>)
                    ELSE Outcome(write_settings(stg,
                                     [stg EXCEPT !.bindings[id] = updated_binding]),
                                 r.reg, ResponseOk(updated_binding),
                                 <<Call("unregister", u.ok), Call("validate", v.ok),
                                   Call("register", r.ok)>>)

\* change_binding putting the old registration back when the new one fails
change_binding_restoring(w, id, binding) ==
    LET stg == get_settings(w.settings, w.platform) IN
    IF id \notin DOMAIN stg.bindings
    THEN Outcome(stg, w.registered,
                 ResponseFailed("Binding with id '" \o id \o "' not found"), <<>>)
    ELSE IF id = "cancel"
    THEN LET b == [stg.bindings[id] EXCEPT !.current_binding = binding]
         IN Outcome(write_settings(stg, [stg EXCEPT !.bindings[id] = b]),
                    w.registered, ResponseOk(b), <<>>)
    ELSE LET binding_to_modify == stg.bindings[id]
             u == unregister_shortcut(w.registered, binding_to_modify)
             v == handy_keys_validate_shortcut(binding)
         IN IF ~v.ok
            THEN Outcome(stg, u.reg, ResultErr(v.err),
                         <<Call("unregister", u.ok), Call("validate", v.ok)>>)
            ELSE LET updated_binding ==
                         [binding_to_modify EXCEPT !.current_binding = binding]
                     r == register_shortcut(u.reg, updated_binding)
                 IN IF ~r.ok
                    THEN Outcome(stg, w.registered,
                                 ResponseFailed("Failed to register shortcut: " \o r.err),
                                 <<Call("unregister", u.ok), Call("validate", v.ok),
                                   Call("register", r.ok)>>)
                    ELSE Outcome(write_settings(stg,
                                     [stg EXCEPT !.bindings[id] = updated_binding]),
                                 r.reg, ResponseOk(updated_binding),
                                 <<Call("unregister", u.ok), Call("validate", v.ok),
                                   Call("register", r.ok)>>)

\* change_binding saving the new combination before it is registered
change_binding_saving_first(w, id, binding) ==
    LET stg == get_settings(w.settings, w.platform) IN
    IF id \notin DOMAIN stg.bindings
    THEN Outcome(stg, w.registered,
                 ResponseFailed("Binding with id '" \o id \o "' not found"), <<>>)
    ELSE IF id = "cancel"
    THEN LET b == [stg.bindings[id] EXCEPT !.current_binding = binding]
         IN Outcome(write_settings(stg, [stg EXCEPT !.bindings[id] = b]),
                    w.registered, ResponseOk(b), <<>>)
    ELSE LET binding_to_modify == stg.bindings[id]
             updated_binding ==
                 [binding_to_modify EXCEPT !.current_binding = binding]
             saved == write_settings(stg,
                          [stg EXCEPT !.bindings[id] = updated_binding])
             u == unregister_shortcut(w.registered, binding_to_modify)
             v == handy_keys_validate_shortcut(binding)
         IN IF ~v.ok
            THEN Outcome(saved, u.reg, ResultErr(v.err),
                         <<Call("unregister", u.ok), Call("validate", v.ok)>>)
            ELSE LET r == register_shortcut(u.reg, updated_binding)
                 IN IF ~r.ok
                    THEN Outcome(saved, r.reg,
                                 ResponseFailed("Failed to register shortcut: " \o r.err),
                                 <<Call("unregister", u.ok), Call("validate", v.ok),
                                   Call("register", r.ok)>>)
                    ELSE Outcome(saved, r.reg, ResponseOk(updated_binding),
                                 <<Call("unregister", u.ok), Call("validate", v.ok),
                                   Call("register", r.ok)>>)

change_binding(w, id, binding) ==
    LET stg == get_settings(w.settings, w.platform) IN
    IF id \notin DOMAIN stg.bindings
    THEN Outcome(stg, w.registered,
                 ResponseFailed("Binding with id '" \o id \o "' not found"), <<>>)
    ELSE IF id = "cancel"
    THEN LET b == [stg.bindings[id] EXCEPT !.current_binding = binding]
         IN Outcome(write_settings(stg, [stg EXCEPT !.bindings[id] = b]),
                    w.registered, ResponseOk(b), <<>>)
    ELSE LET binding_to_modify == stg.bindings[id]
             u == unregister_shortcut(w.registered, binding_to_modify)
             v == handy_keys_validate_shortcut(binding)
         IN IF ~v.ok
            THEN Outcome(stg, u.reg, ResultErr(v.err),
                         <<Call("unregister", u.ok), Call("validate", v.ok)>>)
            ELSE LET updated_binding ==
                         [binding_to_modify EXCEPT !.current_binding = binding]
                     r == register_shortcut(u.reg, updated_binding)
                 IN IF ~r.ok
                    THEN Outcome(stg, r.reg,
                                 ResponseFailed("Failed to register shortcut: " \o r.err),
                                 <<Call("unregister", u.ok), Call("validate", v.ok),
                                   Call("register", r.ok)>>)
                    ELSE Outcome(write_settings(stg,
                                     [stg EXCEPT !.bindings[id] = updated_binding]),
                                 r.reg, ResponseOk(updated_binding),
                                 <<Call("unregister", u.ok), Call("validate", v.ok),
                                   Call("register", r.ok)>>)

\* settings.rs get_stored_binding unwraps the lookup: an unknown id aborts.
get_stored_binding(store, target, id) ==
    LET bindings == get_bindings(store, target)
    IN IF id \in DOMAIN bindings THEN <<bindings[id]>> ELSE <<>>

reset_binding(w, id) ==
    LET binding == get_stored_binding(w.settings, w.platform, id) IN
    IF binding = <<>>
    THEN Outcome(get_settings(w.settings, w.platform), w.registered, ResultPanic, <<>>)
    ELSE change_binding(w, id, binding[1].default_binding)

\* suspend_binding refusing a binding that has no live registration
suspend_binding_checked(w, id) ==
    LET bindings == get_bindings(w.settings, w.platform)
        stg == get_settings(w.settings, w.platform)
    IN IF id \in DOMAIN bindings
       THEN IF w.registered[id] = NONE
            THEN Outcome(stg, w.registered, ResultErr("not registered"),
                         <<Call("unregister", FALSE)>>)
            ELSE Outcome(stg, unregister_shortcut(w.registered, bindings[id]).reg,
                         UnitOk, <<Call("unregister", TRUE)>>)
       ELSE Outcome(stg, w.registered, UnitOk, <<>>)

\* suspend_binding blanking the stored combination as well
suspend_binding_clearing(w, id) ==
    LET bindings == get_bindings(w.settings, w.platform)
        stg == get_settings(w.settings, w.platform)
    IN IF id \in DOMAIN bindings
       THEN Outcome(write_settings(stg,
                        [stg EXCEPT !.bindings[id].current_binding = ""]),
                    unregister_shortcut(w.registered, bindings[id]).reg,
                    UnitOk, <<Call("unregister", TRUE)>>)
       ELSE Outcome(stg, w.registered, UnitOk, <<>>)

suspend_binding(w, id) ==
    LET bindings == get_bindings(w.settings, w.platform)
        stg == get_settings(w.settings, w.platform)
    IN IF id \in DOMAIN bindings
       THEN LET u == unregister_shortcut(w.registered, bindings[id])
            IN IF ~u.ok
               THEN Outcome(stg, u.reg, ResultErr(u.err), <<Call("unregister", u.ok)>>)
               ELSE Outcome(stg, u.reg, UnitOk, <<Call("unregister", u.ok)>>)
       ELSE Outcome(stg, w.registered, UnitOk, <<>>)

\* resume_binding taking the combination from the binding that holds it
resume_binding_evicting(w, id) ==
    LET bindings == get_bindings(w.settings, w.platform)
        stg == get_settings(w.settings, w.platform)
    IN IF id \in DOMAIN bindings
       THEN LET r == register_shortcut(w.registered, bindings[id])
            IN IF ~r.ok
               THEN Outcome(stg,
                            [b \in DOMAIN r.reg |->
                                IF b # id /\ r.reg[b] = bindings[id].current_binding
                                THEN NONE ELSE r.reg[b]],
                            ResultErr(r.err), <<Call("register", r.ok)>>)
               ELSE Outcome(stg, r.reg, UnitOk, <<Call("register", r.ok)>>)
       ELSE Outcome(stg, w.registered, UnitOk, <<>>)

resume_binding(w, id) ==
    LET bindings == get_bindings(w.settings, w.platform)
        stg == get_settings(w.settings, w.platform)
    IN IF id \in DOMAIN bindings
       THEN LET r == register_shortcut(w.registered, bindings[id])
            IN IF ~r.ok
               THEN Outcome(stg, r.reg, ResultErr(r.err), <<Call("register", r.ok)>>)
               ELSE Outcome(stg, r.reg, UnitOk, <<Call("register", r.ok)>>)
       ELSE Outcome(stg, w.registered, UnitOk, <<>>)

(***************************************************************************)
(* The session pipeline (SessionController), modelled from sections 3, 4.1 *)
(* and 5 of the specification.  sessions maps the identity of every        *)
(* Session that exists to                                                  *)
(* [state, cancelled, cancel_issued, buffer, injected]: cancelled is the   *)
(* shared cancellation flag, cancel_issued records that a cancel was       *)
(* issued for the session, buffer counts the audio collected and injected  *)
(* the calls made to the Injector.  A Session that returns to Idle has     *)
(* delivered its outcome and is destroyed.                                 *)
(***************************************************************************)
NonTerminal == {"Recording", "Transcribing", "PostProcessing", "Injecting", "Cancelling"}
Cancellable == {"Recording", "Transcribing", "PostProcessing", "Injecting"}

NewSession ==
    [state |-> "Recording", cancelled |-> FALSE, cancel_issued |-> FALSE,
     buffer |-> 0, injected |-> 0]

ActiveSessions(ss) == {i \in DOMAIN ss : ss[i].state \in NonTerminal}

PipelineState(ss) ==
    IF ActiveSessions(ss) = {} THEN "Idle"
    ELSE ss[CHOOSE i \in ActiveSessions(ss) : TRUE].state

Destroy(ss, sid) == [i \in DOMAIN ss \ {sid} |-> ss[i]]

start_session_unguarded(ss, sid) ==
    [sessions |-> [i \in DOMAIN ss \cup {sid} |->
                       IF i = sid THEN NewSession ELSE ss[i]],
     result |-> "Ok"]

\* start_session beginning the recording anew when one is running
start_session_restarting(ss, sid) ==
    IF ActiveSessions(ss) # {}
    THEN [sessions |-> [i \in DOMAIN ss |->
                           IF ss[i].state = "Recording"
                           THEN [ss[i] EXCEPT !.buffer = 0]
                           ELSE ss[i]],
          result |-> "Busy"]
    ELSE [sessions |-> [i \in DOMAIN ss \cup {sid} |->
                           IF i = sid THEN NewSession ELSE ss[i]],
          result |-> "Ok"]

start_session(ss, sid) ==
    IF ActiveSessions(ss) # {}
    THEN [sessions |-> ss, result |-> "Busy"]
    ELSE [sessions |-> [i \in DOMAIN ss \cup {sid} |->
                           IF i = sid THEN NewSession ELSE ss[i]],
          result |-> "Ok"]

\* Closes the audio capture and hands the buffer to the transcription.
stop_session(ss) ==
    [i \in DOMAIN ss |->
        IF ss[i].state = "Recording"
        THEN [ss[i] EXCEPT !.state = "Transcribing", !.buffer = 0]
        ELSE ss[i]]

\* utils::cancel_current_operation (cancel_session of the specification)
cancel_current_operation(ss) ==
    [i \in DOMAIN ss |->
        IF ss[i].state \in Cancellable
        THEN [ss[i] EXCEPT !.cancelled = TRUE, !.state = "Cancelling",
                           !.buffer = 0]
        ELSE ss[i]]

cancel_operation_dropped(ss) == ss

\* commands/mod.rs
cancel_operation(ss) == cancel_current_operation(ss)

\* The controller's handling of a stage call that has run to completion.
\* It returns the session and the stage call it starts next, if any.
stage_completed(session, stage, ok, post_process) ==
    IF session.cancelled \/ session.state \notin Cancellable
    THEN [session |-> session, next |-> NONE]
    ELSE IF ~ok \/ stage = "inject"
    THEN [session |-> [session EXCEPT !.state = "Idle"], next |-> NONE]
    ELSE IF stage = "transcribe" /\ post_process
    THEN [session |-> [session EXCEPT !.state = "PostProcessing"],
          next |-> "postprocess"]
    ELSE [session |-> [session EXCEPT !.state = "Injecting",
                                      !.injected = @ + 1],
          next |-> "inject"]

(***************************************************************************)
(* shortcut/mod.rs: the post-processing setting commands.  A command takes *)
(* the world and returns the settings it leaves stored and its result.     *)
(***************************************************************************)
Ok(value) == [kind |-> "Ok", value |-> value, error |-> ""]
Err(message) == [kind |-> "Err", value |-> <<>>, error |-> message]

Stored(stg, res) == [settings |-> stg, result |-> res]

change_post_process_enabled_setting(w, enabled) ==
    LET stg == get_settings(w.settings, w.platform)
    IN Stored(write_settings(stg, [stg EXCEPT !.post_process_enabled = enabled]),
              Ok(<<>>))

validate_provider_exists(stg, provider_id) ==
    IF ~\E i \in 1..Len(stg.post_process_providers) :
            stg.post_process_providers[i].id = provider_id
    THEN Err("Provider '" \o provider_id \o "' not found")
    ELSE Ok(<<>>)

Contains(list, x) == \E i \in 1..Len(list) : list[i] = x

change_post_process_model_setting(w, provider_id, model) ==
    LET stg == get_settings(w.settings, w.platform)
        valid == validate_provider_exists(stg, provider_id)
    IN IF valid.kind = "Err" THEN Stored(stg, valid)
       ELSE LET s1 == [stg EXCEPT !.post_process_models =
                                      Insert(@, provider_id, model)]
                trimmed_model == trim(model)
                entry == IF provider_id \in DOMAIN s1.post_process_custom_models
                         THEN s1.post_process_custom_models[provider_id]
                         ELSE <<>>
                s2 == IF trimmed_model # <<>>
                      THEN [s1 EXCEPT !.post_process_custom_models =
                               Insert(@, provider_id,
                                      IF ~Contains(entry, trimmed_model)
                                      THEN Append(entry, trimmed_model)
                                      ELSE entry)]
                      ELSE s1
            IN Stored(write_settings(stg, s2), Ok(<<>>))

set_post_process_provider(w, provider_id) ==
    LET stg == get_settings(w.settings, w.platform)
        valid == validate_provider_exists(stg, provider_id)
    IN IF valid.kind = "Err" THEN Stored(stg, valid)
       ELSE Stored(write_settings(stg,
                       [stg EXCEPT !.post_process_provider_id = provider_id]),
                   Ok(<<>>))

update_post_process_prompt(w, id, prompt) ==
    LET stg == get_settings(w.settings, w.platform)
    IN IF \E i \in 1..Len(stg.post_process_prompts) :
              stg.post_process_prompts[i].id = id
       THEN LET first == CHOOSE i \in 1..Len(stg.post_process_prompts) :
                             /\ stg.post_process_prompts[i].id = id
                             /\ \A j \in 1..(i - 1) :
                                    stg.post_process_prompts[j].id # id
            IN Stored(write_settings(stg,
                          [stg EXCEPT !.post_process_prompts[first].prompt = prompt]),
                      Ok(<<>>))
       ELSE Stored(stg, Err("Prompt with id '" \o id \o "' not found"))

set_post_process_selected_prompt(w, id) ==
    LET stg == get_settings(w.settings, w.platform)
    IN IF ~\E i \in 1..Len(stg.post_process_prompts) :
               stg.post_process_prompts[i].id = id
       THEN Stored(stg, Err("Prompt with id '" \o id \o "' not found"))
       ELSE Stored(write_settings(stg,
                       [stg EXCEPT !.post_process_selected_prompt_id = <<id>>]),
                   Ok(<<>>))

(***************************************************************************)
(* shortcut/mod.rs: adding and deleting prompts.  now is the value of      *)
(* chrono::Utc::now().timestamp_millis() when the command runs.            *)
(***************************************************************************)
Added(stg, res, prompt) == [settings |-> stg, result |-> res, prompt |-> prompt]

add_post_process_prompt(w, prompt, now) ==
    LET stg == get_settings(w.settings, w.platform)
        id == "prompt_" \o ToString(now)
        new_prompt == LLMPrompt(id, prompt)
    IN Added(write_settings(stg,
                 [stg EXCEPT !.post_process_prompts = Append(@, new_prompt)]),
             Ok(<<>>), <<new_prompt>>)

\* delete_post_process_prompt leaving the selection as it was
delete_post_process_prompt_keeping_selection(w, id) ==
    LET stg == get_settings(w.settings, w.platform) IN
    IF Len(stg.post_process_prompts) <= 1
    THEN Stored(stg, Err("Cannot delete the last prompt"))
    ELSE
    LET retained == SelectSeq(stg.post_process_prompts, LAMBDA p : p.id # id) IN
    IF Len(retained) = Len(stg.post_process_prompts)
    THEN Stored(stg, Err("Prompt with id '" \o id \o "' not found"))
    ELSE Stored(write_settings(stg,
                    [stg EXCEPT !.post_process_prompts = retained]),
                Ok(<<>>))

delete_post_process_prompt(w, id) ==
    LET stg == get_settings(w.settings, w.platform) IN
    IF Len(stg.post_process_prompts) <= 1
    THEN Stored(stg, Err("Cannot delete the last prompt"))
    ELSE
    LET retained == SelectSeq(stg.post_process_prompts, LAMBDA p : p.id # id) IN
    IF Len(retained) = Len(stg.post_process_prompts)
    THEN Stored(stg, Err("Prompt with id '" \o id \o "' not found"))
    ELSE
    LET selected == IF stg.post_process_selected_prompt_id = <<id>>
                    THEN IF retained = <<>> THEN <<>> ELSE <<retained[1].id>>
                    ELSE stg.post_process_selected_prompt_id
    IN Stored(write_settings(stg,
                  [stg EXCEPT !.post_process_prompts = retained,
                              !.post_process_selected_prompt_id = selected]),
              Ok(<<>>))

(***************************************************************************)
(* commands/mod.rs: test_post_process.                                     *)
(***************************************************************************)
ZWSP == "U+200B"
ZWNJ == "U+200C"
ZWJ == "U+200D"
BOM == "U+FEFF"

\* str::replace(char, "")
remove_char(s, c) == SelectSeq(s, LAMBDA x : x # c)

\* removes the first occurrence of c only
remove_first(s, c) ==
    IF \E i \in 1..Len(s) : s[i] = c
    THEN LET i == CHOOSE i \in 1..Len(s) :
                      s[i] = c /\ \A j \in 1..(i - 1) : s[j] # c
         IN SubSeq(s, 1, i - 1) \o SubSeq(s, i + 1, Len(s))
    ELSE s

\* the stripping without the byte order mark
strip_invisible_keeping_bom(content) ==
    remove_char(remove_char(remove_char(content, ZWSP), ZWNJ), ZWJ)

\* the stripping taking one occurrence of each character only
strip_invisible_once(content) ==
    remove_first(remove_first(remove_first(remove_first(content, ZWSP), ZWNJ), ZWJ),
                 BOM)

\* content.replace('\u{200B}', "").replace('\u{200C}', "")
\*        .replace('\u{200D}', "").replace('\u{FEFF}', "")
strip_invisible(content) ==
    remove_char(remove_char(remove_char(remove_char(content, ZWSP), ZWNJ), ZWJ), BOM)

\* the substitution into the first placeholder only
RECURSIVE replace_output_first(_, _)
replace_output_first(s, input_text) ==
    IF s = <<>> THEN <<>>
    ELSE IF Head(s) = PLACEHOLDER
    THEN input_text \o Tail(s)
    ELSE <<Head(s)>> \o replace_output_first(Tail(s), input_text)

\* str::replace("${output}", input_text)
RECURSIVE replace_output(_, _)
replace_output(s, input_text) ==
    IF s = <<>> THEN <<>>
    ELSE IF Head(s) = PLACEHOLDER
    THEN input_text \o replace_output(Tail(s), input_text)
    ELSE <<Head(s)>> \o replace_output(Tail(s), input_text)

I32_MAX == 2147483647

RECURSIVE decimal(_)
decimal(s) ==
    IF s = <<>> THEN 0
    ELSE 10 * decimal(SubSeq(s, 1, Len(s) - 1))
         + (CHOOSE n \in 0..9 : ToString(n) = s[Len(s)])

\* str::parse::<i32>().unwrap_or(0)
parse_i32_or_zero(s) ==
    IF s # <<>> /\ (\A i \in 1..Len(s) : s[i] \in Digits) /\ decimal(s) <= I32_MAX
    THEN decimal(s)
    ELSE 0

Tested(stg, res, request) == [settings |-> stg, result |-> res, request |-> request]

\* env is what lies outside the program: whether Apple Intelligence is
\* available, and how the provider answers a request that is sent.
\* The steps of test_post_process on the settings value stg it has read.
test_post_process_steps(stg, target, input_text, env) ==
    IF ~stg.post_process_enabled
    THEN Tested(stg, Err("Post-processing is disabled. Please enable it first."), <<>>)
    ELSE IF active_post_process_provider(stg) = <<>>
    THEN Tested(stg, Err("No post-processing provider is selected."), <<>>)
    ELSE
    LET provider == active_post_process_provider(stg)[1]
        model == IF provider.id \in DOMAIN stg.post_process_models
                 THEN stg.post_process_models[provider.id]
                 ELSE <<>>
    IN
    IF trim(model) = <<>>
    THEN Tested(stg, Err("No model configured for provider '" \o provider.label \o "'."),
                <<>>)
    ELSE IF stg.post_process_selected_prompt_id = <<>>
    THEN Tested(stg, Err("No prompt is selected."), <<>>)
    ELSE
    LET selected_prompt_id == stg.post_process_selected_prompt_id[1]
        found == SelectSeq(stg.post_process_prompts,
                           LAMBDA p : p.id = selected_prompt_id)
    IN
    IF found = <<>>
    THEN Tested(stg, Err("Selected prompt '" \o selected_prompt_id \o "' not found."),
                <<>>)
    ELSE IF trim(found[1].prompt) = <<>>
    THEN Tested(stg, Err("The selected prompt is empty."), <<>>)
    ELSE
    LET processed_prompt == replace_output(found[1].prompt, input_text) IN
    IF provider.id = APPLE_INTELLIGENCE_PROVIDER_ID
    THEN IF target # "macos_aarch64"
         THEN Tested(stg,
                     Err("Apple Intelligence is only available on Apple silicon Macs."),
                     <<>>)
         ELSE IF ~env.available
         THEN Tested(stg,
                     Err("Apple Intelligence is not available on this device."),
                     <<>>)
         ELSE LET request == [provider |-> provider.id, model |-> model,
                              prompt |-> processed_prompt, api_key |-> <<>>,
                              token_limit |-> parse_i32_or_zero(trim(model))]
              IN IF env.response.kind = "Some"
                 THEN Tested(stg, Ok(env.response.content), <<request>>)
                 ELSE Tested(stg,
                             Err("Apple Intelligence error: " \o env.response.error),
                             <<request>>)
    ELSE
    LET api_key == IF provider.id \in DOMAIN stg.post_process_api_keys
                   THEN stg.post_process_api_keys[provider.id]
                   ELSE <<>>
        request == [provider |-> provider.id, model |-> model,
                    prompt |-> processed_prompt, api_key |-> api_key,
                    token_limit |-> 0]
    IN
    IF env.response.kind = "Some"
    THEN Tested(stg, Ok(strip_invisible(env.response.content)), <<request>>)
    ELSE IF env.response.kind = "None"
    THEN Tested(stg, Err("LLM returned an empty response."), <<request>>)
    ELSE Tested(stg, Err("LLM request failed: " \o env.response.error), <<request>>)

\* test_post_process without the check that post-processing is enabled
test_post_process_unguarded(w, input_text, env) ==
    LET stg == get_settings(w.settings, w.platform)
        out == test_post_process_steps([stg EXCEPT !.post_process_enabled = TRUE],
                                       w.platform, input_text, env)
    IN Tested(stg, out.result, out.request)

test_post_process(w, input_text, env) ==
    test_post_process_steps(get_settings(w.settings, w.platform), w.platform,
                            input_text, env)

(***************************************************************************)
(* The state after start-up.  load_or_create_app_settings has stored the   *)
(* settings, and init_shortcuts has registered every binding but cancel.   *)
(***************************************************************************)
\* Nothing is managed and no model is loaded when the process starts.
NoResources ==
    [enigo |-> FALSE, model |-> [loaded |-> FALSE, refs |-> 0, idle |-> 0],
     scheduler |-> "sleeping"]

handy_keys_init_shortcuts(stg) ==
    [id \in DOMAIN stg.bindings |->
        IF id = "cancel" THEN NONE ELSE stg.bindings[id].current_binding]

init_shortcuts(stg) == handy_keys_init_shortcuts(stg)

Before == [bindings |-> settings.bindings, registered |-> registered]

Cmd(op, id, binding, result, calls) ==
    [op |-> op, id |-> id, binding |-> binding, result |-> result,
     calls |-> calls, pre |-> Before]

Event(op) == [op |-> op]

Init ==
    /\ platform = "other"
    /\ settings = get_default_settings(platform)
    /\ registered = init_shortcuts(settings)
    /\ sessions = << >>
    /\ created = 0
    /\ inflight = {}
    /\ resources = NoResources
    /\ running = NoCalls
    /\ last = Event("init")

(***************************************************************************)
(* The session events.                                                     *)
(***************************************************************************)
StartSession ==
    LET r == start_session(sessions, created + 1) IN
    /\ created < MaxSessions \/ r.result = "Busy"
    /\ sessions' = r.sessions
    /\ created' = IF r.result = "Ok" THEN created + 1 ELSE created
    /\ registered' = IF r.result = "Ok"
                     THEN register_cancel_shortcut(registered, settings)
                     ELSE registered
    /\ last' = [op |-> "start_session", result |-> r.result,
                live |-> DOMAIN sessions]
    /\ UNCHANGED <<inflight, settings, platform, resources, running>>

AudioChunk ==
    \E i \in DOMAIN sessions :
        /\ sessions[i].state = "Recording"
        /\ sessions[i].buffer < MaxAudio
        /\ sessions' = [sessions EXCEPT ![i].buffer = @ + 1]
        /\ last' = Event("audio")
        /\ UNCHANGED <<created, inflight, settings, registered, platform, resources, running>>

StopSession ==
    /\ \E i \in DOMAIN sessions : sessions[i].state = "Recording"
    /\ sessions' = stop_session(sessions)
    /\ inflight' = inflight \cup
           {[sid |-> i, stage |-> "transcribe"] :
                i \in {j \in DOMAIN sessions : sessions[j].state = "Recording"}}
    /\ last' = Event("stop_session")
    /\ UNCHANGED <<created, settings, registered, platform, resources, running>>

StageCompleted ==
    \E call \in inflight, ok \in BOOLEAN, post_process \in BOOLEAN :
        LET r == stage_completed(sessions[call.sid], call.stage, ok, post_process)
        IN /\ sessions' = IF r.session.state = "Idle"
                          THEN Destroy(sessions, call.sid)
                          ELSE [sessions EXCEPT ![call.sid] = r.session]
           /\ inflight' = (inflight \ {call}) \cup
                  (IF r.next = NONE THEN {}
                   ELSE {[sid |-> call.sid, stage |-> r.next]})
           /\ registered' = IF r.session.state = "Idle"
                            THEN unregister_cancel_shortcut(registered, settings)
                            ELSE registered
           /\ last' = Event("stage_completed")
           /\ UNCHANGED <<created, settings, platform, resources, running>>

CancelOperation ==
    LET after == cancel_operation(sessions) IN
    /\ sessions' = [i \in DOMAIN sessions |->
                       IF sessions[i].state \in Cancellable
                       THEN [after[i] EXCEPT !.cancel_issued = TRUE]
                       ELSE after[i]]
    /\ last' = Event("cancel_operation")
    /\ UNCHANGED <<created, inflight, settings, registered, platform, resources, running>>

\* Cancelling resolves to Idle once the call that was in flight has returned.
ResolveCancel ==
    \E i \in DOMAIN sessions :
        /\ sessions[i].state = "Cancelling"
        /\ \A call \in inflight : call.sid # i
        /\ sessions' = Destroy(sessions, i)
        /\ registered' = unregister_cancel_shortcut(registered, settings)
        /\ last' = Event("resolve_cancel")
        /\ UNCHANGED <<created, inflight, settings, platform, resources, running>>

SessionNext ==
    \/ StartSession
    \/ AudioChunk
    \/ StopSession
    \/ StageCompleted
    \/ CancelOperation
    \/ ResolveCancel

(***************************************************************************)
(* The binding commands.                                                   *)
(***************************************************************************)
Apply(op, id, binding, out) ==
    /\ settings' = out.settings
    /\ registered' = out.registered
    /\ last' = Cmd(op, id, binding, out.result, out.calls)
    /\ UNCHANGED <<sessions, created, inflight, platform, resources, running>>

ChangeBinding ==
    \E id \in BindingIds \cup UnknownIds, binding \in Chords :
        Apply("change_binding", id, binding, change_binding(World, id, binding))

ResetBinding ==
    \E id \in BindingIds \cup UnknownIds :
        Apply("reset_binding", id, NONE, reset_binding(World, id))

SuspendBinding ==
    \E id \in BindingIds \cup UnknownIds :
        Apply("suspend_binding", id, NONE, suspend_binding(World, id))

ResumeBinding ==
    \E id \in BindingIds \cup UnknownIds :
        Apply("resume_binding", id, NONE, resume_binding(World, id))

Next ==
    \/ SessionNext
    \/ ChangeBinding
    \/ ResetBinding
    \/ SuspendBinding
    \/ ResumeBinding

Spec == Init /\ [][Next]_vars

\* A stage call in flight runs to completion, and a session that is
\* Cancelling is resolved.
FairSpec == Spec /\ WF_vars(StageCompleted) /\ WF_vars(ResolveCancel)

(***************************************************************************)
(* Properties of the session pipeline and of the binding commands.         *)
(***************************************************************************)
BindingCommands == {"change_binding", "reset_binding", "suspend_binding", "resume_binding"}

BackendFailed(calls) == \E i \in 1..Len(calls) : ~calls[i].ok

\* C1: at most one Session is non-terminal in every reachable state, and a
\* start_session issued while a session is non-terminal answers Busy and
\* creates no session.
C1_SingleActiveSession ==
    /\ Cardinality(ActiveSessions(sessions)) <= 1
    /\ (last.op = "start_session" /\ last.live # {}) =>
           /\ last.result = "Busy"
           /\ DOMAIN sessions = last.live

C1_Witness ==
    /\ last.op = "start_session"
    /\ last.result = "Busy"
    /\ PipelineState(sessions) = "Transcribing"

\* C2: once cancel has been issued for a session in Recording, Transcribing,
\* PostProcessing or Injecting, no further call to the Injector is made for
\* that session, also when a stage that was in flight completes afterwards,
\* and the session always ends (the pipeline returns to Idle).
C2_CancelLeadsToIdleWithoutInjection ==
    /\ [][\A i \in DOMAIN sessions :
              (sessions[i].cancel_issued /\ i \in DOMAIN sessions') =>
                  sessions'[i].injected = sessions[i].injected]_vars
    /\ \A i \in 1..MaxSessions :
           (i \in DOMAIN sessions /\ sessions[i].cancel_issued)
               ~> (i \notin DOMAIN sessions)

C2_Witness ==
    /\ last.op = "stage_completed"
    /\ \E i \in DOMAIN sessions :
           /\ sessions[i].cancel_issued
           /\ sessions[i].state = "Cancelling"
           /\ \A call \in inflight : call.sid # i

\* C3: the cancel binding is registered whenever the session is Recording,
\* Transcribing or PostProcessing and is not registered whenever the
\* pipeline is Idle.
C3_CancelRegistrationTracksSession ==
    /\ PipelineState(sessions) \in {"Recording", "Transcribing", "PostProcessing"}
           => registered["cancel"] # NONE
    /\ PipelineState(sessions) = "Idle" => registered["cancel"] = NONE

\* C4: change_binding on the cancel id succeeds, makes no backend call, leaves
\* every live registration as it was and changes nothing in the stored
\* bindings but the current_binding of cancel, in every session state.
C4_ChangeCancelBindingStoresOnly ==
    (last.op = "change_binding" /\ last.id = "cancel") =>
        /\ last.result.kind = "Ok" /\ last.result.success
        /\ last.calls = <<>>
        /\ registered = last.pre.registered
        /\ settings.bindings = [last.pre.bindings EXCEPT
                                   !["cancel"].current_binding = last.binding]

C4_Witness ==
    /\ last.op = "change_binding" /\ last.id = "cancel"
    /\ last.binding = "ctrl+"
    /\ PipelineState(sessions) = "Recording"
    /\ registered["cancel"] = "escape"
    /\ settings.bindings["cancel"].current_binding = "ctrl+"

\* C5: change_binding on a stored binding other than cancel unregisters the
\* old combination, then validates the new one, then registers it; when the
\* registration fails the caller gets a failure response with a message, the
\* binding is left without a live registration and nothing is restored.
C5_RebindOrderAndNoRestore ==
    (last.op = "change_binding" /\ last.id \in BindingIds \ {"cancel"}) =>
        /\ Len(last.calls) \in {2, 3}
        /\ last.calls[1].call = "unregister"
        /\ last.calls[2].call = "validate"
        /\ Len(last.calls) = 3 => (last.calls[2].ok /\ last.calls[3].call = "register")
        /\ (Len(last.calls) = 3 /\ ~last.calls[3].ok) =>
               /\ last.result.kind = "Ok" /\ ~last.result.success
               /\ last.result.error # ""
               /\ registered[last.id] = NONE
               /\ settings.bindings = last.pre.bindings

C5_Witness ==
    /\ last.op = "change_binding" /\ last.id = "transcribe"
    /\ Len(last.calls) = 3 /\ ~last.calls[3].ok
    /\ last.pre.registered["transcribe"] = "ctrl+space"
    /\ registered["transcribe"] = NONE

\* C6: a binding command whose registration or validation step fails for a
\* binding returns the error and leaves the live registration of every other
\* binding as it was before the call.
C6_FailureLeavesOtherBindings ==
    (last.op \in BindingCommands /\ BackendFailed(last.calls)) =>
        /\ ~last.result.success
        /\ last.result.error # ""
        /\ \A b \in BindingIds \ {last.id} :
               registered[b] = last.pre.registered[b]

C6_Witness ==
    /\ last.op \in BindingCommands /\ BackendFailed(last.calls)
    /\ last.id = "cancel"
    /\ registered["transcribe"] = "escape"

\* C7: suspend_binding and resume_binding leave the stored bindings as they
\* were; suspend removes the live registration of the binding, a successful
\* resume registers the stored combination, and no other registration changes.
C7_SuspendResumeKeepSettings ==
    (last.op \in {"suspend_binding", "resume_binding"}) =>
        /\ settings.bindings = last.pre.bindings
        /\ \A b \in BindingIds \ {last.id} : registered[b] = last.pre.registered[b]
        /\ (last.op = "suspend_binding" /\ last.id \in BindingIds) =>
               registered[last.id] = NONE
        /\ (last.op = "resume_binding" /\ last.id \in BindingIds) =>
               registered[last.id] =
                   IF last.result.success
                   THEN settings.bindings[last.id].current_binding
                   ELSE last.pre.registered[last.id]

C7_Witness ==
    /\ last.op = "resume_binding" /\ last.id = "transcribe"
    /\ last.pre.registered["transcribe"] = NONE
    /\ registered["transcribe"] = "escape"
    /\ settings.bindings["transcribe"].default_binding = "ctrl+space"

\* C8: suspending a binding that has no live registration succeeds and leaves
\* the registrations as they were.
C8_UnregisterIdempotent ==
    (/\ last.op = "suspend_binding"
     /\ last.id \in BindingIds
     /\ last.pre.registered[last.id] = NONE) =>
        /\ last.result = UnitOk
        /\ last.calls = <<Call("unregister", TRUE)>>
        /\ registered = last.pre.registered

C8_Witness ==
    /\ last.op = "suspend_binding" /\ last.id = "transcribe"
    /\ last.pre.registered["transcribe"] = NONE
    /\ last.result = UnitOk

\* C9: no combination is registered to two bindings at once, and registering
\* a binding whose combination another binding holds fails with
\* ShortcutConflict.
C9_NoSharedCombination ==
    /\ \A a, b \in BindingIds :
           (a # b /\ registered[a] # NONE) => registered[a] # registered[b]
    /\ (/\ last.op = "resume_binding"
        /\ last.id \in BindingIds
        /\ \E other \in BindingIds \ {last.id} :
               last.pre.registered[other] =
                   last.pre.bindings[last.id].current_binding) =>
           /\ last.result.kind = "Err"
           /\ last.result.error = "ShortcutConflict"
           /\ registered = last.pre.registered

C9_Witness ==
    /\ last.op = "resume_binding" /\ last.id = "cancel"
    /\ last.result.error = "ShortcutConflict"
    /\ registered["transcribe"] = "escape"

(***************************************************************************)
(* The post-processing commands.  The stored settings at start-up are the  *)
(* defaults, or a settings file that names a provider or a prompt that no  *)
(* longer exists; what is outside the program answers a request with text, *)
(* with nothing or with a failure.                                         *)
(***************************************************************************)
ProviderIdInputs == {"openai", APPLE_INTELLIGENCE_PROVIDER_ID, "ghost_provider"}
ModelInputs == {<<" ">>, <<"7">>}
PromptIdInputs == {"default_improve_transcriptions", "ghost_prompt"}
PromptTextInputs == {<<>>, <<" ">>, <<PLACEHOLDER>>}
InputTexts == {<<>>, <<"h">>}

Response(kind, content, error) == [kind |-> kind, content |-> content, error |-> error]

Envs ==
    {[available |-> TRUE, response |-> r] :
        r \in {Response("Some", <<"H", ZWSP, "i", BOM>>, ""),
               Response("Some", <<>>, ""),
               Response("None", <<>>, ""),
               Response("Err", <<>>, "timeout")}}
    \cup {[available |-> FALSE, response |-> Response("None", <<>>, "")]}

PostProcessInit ==
    /\ platform \in Platforms
    /\ \E provider_id \in {"openai", "ghost_provider"},
          selected \in {<<>>, <<"ghost_prompt">>} :
           settings = ensure_post_process_defaults(
                          [get_default_settings(platform) EXCEPT
                               !.post_process_provider_id = provider_id,
                               !.post_process_selected_prompt_id = selected],
                          platform)
    /\ registered = init_shortcuts(settings)
    /\ sessions = << >>
    /\ created = 0
    /\ inflight = {}
    /\ resources = NoResources
    /\ running = NoCalls
    /\ last = Event("init")

Setting(op, out) ==
    /\ settings' = out.settings
    /\ last' = [op |-> op, result |-> out.result]
    /\ UNCHANGED <<sessions, created, inflight, registered, platform, resources, running>>

ChangePostProcessEnabledSetting ==
    \E enabled \in BOOLEAN :
        Setting("change_post_process_enabled_setting",
                change_post_process_enabled_setting(World, enabled))

SetPostProcessProvider ==
    \E provider_id \in ProviderIdInputs :
        Setting("set_post_process_provider",
                set_post_process_provider(World, provider_id))

ChangePostProcessModelSetting ==
    \E provider_id \in ProviderIdInputs, model \in ModelInputs :
        Setting("change_post_process_model_setting",
                change_post_process_model_setting(World, provider_id, model))

UpdatePostProcessPrompt ==
    \E id \in PromptIdInputs, prompt \in PromptTextInputs :
        Setting("update_post_process_prompt",
                update_post_process_prompt(World, id, prompt))

SetPostProcessSelectedPrompt ==
    \E id \in PromptIdInputs :
        Setting("set_post_process_selected_prompt",
                set_post_process_selected_prompt(World, id))

TestPostProcess ==
    \E input_text \in InputTexts, env \in Envs :
        LET out == test_post_process(World, input_text, env) IN
        /\ settings' = out.settings
        /\ last' = [op |-> "test_post_process", input_text |-> input_text,
                    response |-> IF out.request = <<>>
                                 THEN Response("None", <<>>, "")
                                 ELSE env.response,
                    result |-> out.result, request |-> out.request]
        /\ UNCHANGED <<sessions, created, inflight, registered, platform, resources, running>>

PostProcessNext ==
    \/ ChangePostProcessEnabledSetting
    \/ SetPostProcessProvider
    \/ ChangePostProcessModelSetting
    \/ UpdatePostProcessPrompt
    \/ SetPostProcessSelectedPrompt
    \/ TestPostProcess

PostProcessSpec == PostProcessInit /\ [][PostProcessNext]_vars

(***************************************************************************)
(* Properties of test_post_process.                                        *)
(***************************************************************************)
HasText(s) == \E i \in 1..Len(s) : s[i] \notin Whitespace

PostProcessEnabled == settings.post_process_enabled

ProviderSelected ==
    \E i \in 1..Len(settings.post_process_providers) :
        settings.post_process_providers[i].id = settings.post_process_provider_id

SelectedProviderLabel ==
    LET i == CHOOSE i \in 1..Len(settings.post_process_providers) :
                 /\ settings.post_process_providers[i].id =
                        settings.post_process_provider_id
                 /\ \A j \in 1..(i - 1) :
                        settings.post_process_providers[j].id #
                            settings.post_process_provider_id
    IN settings.post_process_providers[i].label

ModelConfigured ==
    /\ settings.post_process_provider_id \in DOMAIN settings.post_process_models
    /\ HasText(settings.post_process_models[settings.post_process_provider_id])

PromptSelected == settings.post_process_selected_prompt_id # <<>>

PromptFound ==
    \E i \in 1..Len(settings.post_process_prompts) :
        settings.post_process_prompts[i].id =
            settings.post_process_selected_prompt_id[1]

PromptNonEmpty ==
    LET i == CHOOSE i \in 1..Len(settings.post_process_prompts) :
                 /\ settings.post_process_prompts[i].id =
                        settings.post_process_selected_prompt_id[1]
                 /\ \A j \in 1..(i - 1) :
                        settings.post_process_prompts[j].id #
                            settings.post_process_selected_prompt_id[1]
    IN HasText(settings.post_process_prompts[i].prompt)

Refused(message) == last.result = Err(message) /\ last.request = <<>>

\* C10: test_post_process sends a request only when post-processing is
\* enabled, a provider is selected, that provider has a model and a prompt is
\* selected and not empty; otherwise it sends nothing and returns the message
\* of the first precondition that fails, in the order disabled, no provider,
\* no model, no prompt selected, empty prompt, and the five messages differ.
C10_PostProcessPreconditions ==
    (last.op = "test_post_process") =>
        /\ last.request # <<>> =>
               /\ PostProcessEnabled /\ ProviderSelected /\ ModelConfigured
               /\ PromptSelected /\ PromptFound /\ PromptNonEmpty
        /\ ~PostProcessEnabled =>
               Refused("Post-processing is disabled. Please enable it first.")
        /\ (PostProcessEnabled /\ ~ProviderSelected) =>
               Refused("No post-processing provider is selected.")
        /\ (PostProcessEnabled /\ ProviderSelected /\ ~ModelConfigured) =>
               Refused("No model configured for provider '"
                           \o SelectedProviderLabel \o "'.")
        /\ (PostProcessEnabled /\ ProviderSelected /\ ModelConfigured
                /\ ~PromptSelected) =>
               Refused("No prompt is selected.")
        /\ (PostProcessEnabled /\ ProviderSelected /\ ModelConfigured
                /\ PromptSelected /\ ~PromptFound) =>
               (last.result.kind = "Err" /\ last.request = <<>>)
        /\ (PostProcessEnabled /\ ProviderSelected /\ ModelConfigured
                /\ PromptSelected /\ PromptFound /\ ~PromptNonEmpty) =>
               Refused("The selected prompt is empty.")
        /\ ProviderSelected =>
               Cardinality({"Post-processing is disabled. Please enable it first.",
                            "No post-processing provider is selected.",
                            "No model configured for provider '"
                                \o SelectedProviderLabel \o "'.",
                            "No prompt is selected.",
                            "The selected prompt is empty."}) = 5

C10_Witness ==
    /\ last.op = "test_post_process"
    /\ last.result.error = "The selected prompt is empty."
    /\ PostProcessEnabled /\ ProviderSelected /\ ModelConfigured /\ PromptSelected

\* C11: every request that test_post_process sends carries a provider, a
\* model and a rendered prompt that are not empty, whatever the settings and
\* the input text are.
C11_RequestsAreComplete ==
    (last.op = "test_post_process" /\ last.request # <<>>) =>
        /\ last.request[1].provider # ""
        /\ last.request[1].model # <<>>
        /\ last.request[1].prompt # <<>>

\* C12: when the request to an HTTP provider succeeds without text (no
\* completion content, or content that is the empty string) test_post_process
\* returns the empty-response error and not Ok, and when the request fails it
\* returns the request-failed error carrying the message, which differs from
\* the empty-response error.
C12_EmptyResponseIsAnError ==
    (/\ last.op = "test_post_process"
     /\ last.request # <<>>
     /\ last.request[1].provider # APPLE_INTELLIGENCE_PROVIDER_ID) =>
        /\ (\/ last.response.kind = "None"
            \/ last.response.kind = "Some" /\ last.response.content = <<>>) =>
               last.result = Err("LLM returned an empty response.")
        /\ last.response.kind = "Err" =>
               /\ last.result = Err("LLM request failed: " \o last.response.error)
               /\ last.result # Err("LLM returned an empty response.")

(***************************************************************************)
(* The text functions of test_post_process on their own: the stripping of  *)
(* the provider's text and the rendering of the prompt, applied to every   *)
(* text of at most MaxText characters.                                     *)
(***************************************************************************)
Invisible == {ZWSP, ZWNJ, ZWJ, BOM}
TextAlphabet == Invisible \cup {"a", PLACEHOLDER}
Texts == UNION {[1..n -> TextAlphabet] : n \in 0..MaxText}
Transcripts == {<<>>, <<"h">>, <<"h", PLACEHOLDER>>}

TextInit ==
    /\ platform = "other"
    /\ settings = get_default_settings(platform)
    /\ registered = init_shortcuts(settings)
    /\ sessions = << >>
    /\ created = 0
    /\ inflight = {}
    /\ resources = NoResources
    /\ running = NoCalls
    /\ \E text \in Texts, input_text \in Transcripts :
           last = [op |-> "text", text |-> text, input_text |-> input_text]

TextFrame ==
    UNCHANGED <<sessions, created, inflight, settings, registered, platform,
                resources, running>>

\* the provider answered with last.text
StripInvisible ==
    /\ last.op = "text"
    /\ last' = [op |-> "strip_invisible", text |-> last.text,
                out |-> strip_invisible(last.text)]
    /\ TextFrame

\* the stripped text is stripped again
StripInvisibleAgain ==
    /\ last.op = "strip_invisible"
    /\ last' = [op |-> "strip_invisible_again", original |-> last.text,
                text |-> last.out, out |-> strip_invisible(last.out)]
    /\ TextFrame

\* last.text is the selected prompt, last.input_text the transcript
ReplaceOutput ==
    /\ last.op = "text"
    /\ last' = [op |-> "replace_output", text |-> last.text,
                input_text |-> last.input_text,
                out |-> replace_output(last.text, last.input_text)]
    /\ TextFrame

TextNext == StripInvisible \/ StripInvisibleAgain \/ ReplaceOutput

TextSpec == TextInit /\ [][TextNext]_vars

VisiblePositions(text) == {i \in 1..Len(text) : text[i] \notin Invisible}

\* C13: the stripped text has one character for every character of the
\* provider's text that is none of U+200B, U+200C, U+200D and U+FEFF, the
\* same characters in the same order, and nothing else.
C13_StripRemovesExactlyInvisible ==
    (last.op = "strip_invisible") =>
        LET kept == VisiblePositions(last.text) IN
        /\ Len(last.out) = Cardinality(kept)
        /\ \A i \in kept :
               last.out[Cardinality({j \in kept : j <= i})] = last.text[i]

C13_Witness ==
    /\ last.op = "strip_invisible"
    /\ last.text = <<ZWSP, "a", BOM>>
    /\ last.out = <<"a">>

\* C14: stripping a text that holds none of the four characters returns it
\* unchanged, and stripping an already stripped text returns it unchanged.
C14_StripIdempotent ==
    /\ (last.op = "strip_invisible" /\ VisiblePositions(last.text) = 1..Len(last.text))
           => last.out = last.text
    /\ (last.op = "strip_invisible_again") => last.out = last.text

C14_Witness ==
    /\ last.op = "strip_invisible_again"
    /\ last.original = <<ZWJ, "a", ZWJ>>
    /\ last.out = <<"a">>

Placeholders(text) == {i \in 1..Len(text) : text[i] = PLACEHOLDER}

\* the prompt up to position n with the transcript in place of every placeholder
RECURSIVE Rendered(_, _, _)
Rendered(prompt, transcript, n) ==
    IF n = 0 THEN <<>>
    ELSE Rendered(prompt, transcript, n - 1)
         \o (IF prompt[n] = PLACEHOLDER THEN transcript ELSE <<prompt[n]>>)

\* C15 as stated: the transcript is put in the place of one occurrence of the
\* placeholder, the rest of the prompt is kept as it is, and a prompt without
\* a placeholder is rendered unchanged.
C15_SingleOccurrenceReplaced ==
    (last.op = "replace_output") =>
        IF Placeholders(last.text) = {}
        THEN last.out = last.text
        ELSE \E i \in Placeholders(last.text) :
                 last.out = SubSeq(last.text, 1, i - 1) \o last.input_text
                                \o SubSeq(last.text, i + 1, Len(last.text))

\* C15 amended: the transcript is put verbatim in the place of every
\* occurrence of the placeholder, every other character of the prompt is kept
\* in its order, and a prompt without a placeholder is rendered unchanged.
C15_EveryOccurrenceReplaced ==
    (last.op = "replace_output") =>
        /\ last.out = Rendered(last.text, last.input_text, Len(last.text))
        /\ Placeholders(last.text) = {} => last.out = last.text

C15_Witness ==
    /\ last.op = "replace_output"
    /\ last.text = <<PLACEHOLDER, "a", PLACEHOLDER>>
    /\ last.input_text = <<"h">>
    /\ last.out = <<"h", "a", "h">>

(***************************************************************************)
(* settings.rs: ModelUnloadTimeout.  None is <<>>, Some(n) is <<n>>.       *)
(***************************************************************************)
ModelUnloadTimeout ==
    {"Never", "Immediately", "Min2", "Min5", "Min10", "Min15", "Hour1", "Sec5"}

\* to_minutes counting Hour1 in hours
to_minutes_in_hours(timeout) ==
    CASE timeout = "Never" -> <<>>
      [] timeout = "Hour1" -> <<1>>
      [] timeout \in {"Immediately", "Sec5"} -> <<0>>
      [] timeout = "Min2" -> <<2>>
      [] timeout = "Min5" -> <<5>>
      [] timeout = "Min10" -> <<10>>
      [] timeout = "Min15" -> <<15>>

to_minutes(timeout) ==
    CASE timeout = "Never" -> <<>>
      [] timeout = "Immediately" -> <<0>>
      [] timeout = "Min2" -> <<2>>
      [] timeout = "Min5" -> <<5>>
      [] timeout = "Min10" -> <<10>>
      [] timeout = "Min15" -> <<15>>
      [] timeout = "Hour1" -> <<60>>
      [] timeout = "Sec5" -> <<0>>

\* to_seconds taking Never for no delay at all
to_seconds_without_never(timeout) ==
    CASE timeout \in {"Never", "Immediately"} -> <<0>>
      [] timeout = "Sec5" -> <<5>>
      [] OTHER -> <<to_minutes(timeout)[1] * 60>>

to_seconds(timeout) ==
    CASE timeout = "Never" -> <<>>
      [] timeout = "Immediately" -> <<0>>
      [] timeout = "Sec5" -> <<5>>
      [] OTHER -> IF to_minutes(timeout) = <<>> THEN <<>>
                  ELSE <<to_minutes(timeout)[1] * 60>>

(***************************************************************************)
(* commands/mod.rs: initialize_enigo.  new_state is what EnigoState::new() *)
(* answers if it is called: <<>> for a state, <<e>> for the error e.       *)
(***************************************************************************)
Initialized(managed, res, constructed) ==
    [enigo |-> managed, result |-> res, constructed |-> constructed]

\* initialize_enigo without the look at the managed state
initialize_enigo_unchecked(managed, new_state) ==
    IF new_state = <<>>
    THEN Initialized(TRUE, Ok(<<>>), TRUE)
    ELSE Initialized(FALSE,
                     Err("Failed to initialize input system: " \o new_state[1]),
                     FALSE)

initialize_enigo(managed, new_state) ==
    IF managed
    THEN Initialized(TRUE, Ok(<<>>), FALSE)
    ELSE IF new_state = <<>>
    THEN Initialized(TRUE, Ok(<<>>), TRUE)
    ELSE Initialized(FALSE,
                     Err("Failed to initialize input system: " \o new_state[1]),
                     FALSE)

(***************************************************************************)
(* The model lifecycle (TranscriptionEngine), modelled from sections 3,    *)
(* 4.3 and 5 of the specification.  The ModelHandle is                     *)
(* [loaded, refs, idle]: refs counts the transcriptions using the model,   *)
(* idle the seconds since it was last used.  Every operator below is one   *)
(* critical section of the reference-count guard.                          *)
(***************************************************************************)
\* A transcription takes the model, loading it on demand.
acquire_model(model) ==
    [loaded |-> TRUE, refs |-> model.refs + 1, idle |-> 0]

\* The transcription is over; the last-used time is refreshed.
release_model(model) ==
    [model EXCEPT !.refs = @ - 1, !.idle = 0]

\* The scheduler's look at the handle when its timer fires.
idle_timeout_reached(model, timeout) ==
    /\ model.loaded
    /\ to_seconds(timeout) # <<>>
    /\ model.idle >= to_seconds(timeout)[1]

\* evict_idle trusting the look it took before it had the guard
evict_idle_unguarded(model, timeout) ==
    [model EXCEPT !.loaded = FALSE, !.idle = 0]

\* The scheduler, holding the guard, unloads the model if it is still unused.
evict_idle(model, timeout) ==
    IF model.refs = 0 /\ idle_timeout_reached(model, timeout)
    THEN [model EXCEPT !.loaded = FALSE, !.idle = 0]
    ELSE model

(***************************************************************************)
(* The resources of the process: the managed EnigoState and the model.     *)
(***************************************************************************)
TimeoutInputs == ModelUnloadTimeout
NewStateInputs == {<<>>, <<"permission denied">>}
TickSeconds == {5, 120}

ResourceInit ==
    /\ platform = "other"
    /\ \E timeout \in TimeoutInputs :
           settings = [get_default_settings(platform) EXCEPT
                           !.model_unload_timeout = timeout]
    /\ registered = init_shortcuts(settings)
    /\ sessions = << >>
    /\ created = 0
    /\ inflight = {}
    /\ resources = NoResources
    /\ running = NoCalls
    /\ last = Event("init")

ResourceFrame ==
    UNCHANGED <<sessions, created, inflight, settings, registered, platform,
                running>>

InitializeEnigo ==
    \E new_state \in NewStateInputs :
        LET out == initialize_enigo(resources.enigo, new_state) IN
        /\ resources' = [resources EXCEPT !.enigo = out.enigo]
        /\ last' = [op |-> "initialize_enigo", result |-> out.result,
                    constructed |-> out.constructed,
                    managed |-> resources.enigo,
                    retry |-> (last.op = "initialize_enigo"
                                   /\ last.result.kind = "Err")]
        /\ ResourceFrame

AcquireModel ==
    /\ resources.model.refs < MaxRefs
    /\ resources' = [resources EXCEPT !.model = acquire_model(@)]
    /\ last' = Event("acquire_model")
    /\ ResourceFrame

ReleaseModel ==
    /\ resources.model.refs > 0
    /\ resources' = [resources EXCEPT !.model = release_model(@)]
    /\ last' = Event("release_model")
    /\ ResourceFrame

\* Time passes while the loaded model is not in use.
Tick ==
    \E seconds \in TickSeconds :
        /\ resources.model.loaded /\ resources.model.refs = 0
        /\ resources.model.idle < MaxIdle
        /\ resources' = [resources EXCEPT
               !.model.idle = IF @ + seconds > MaxIdle THEN MaxIdle ELSE @ + seconds]
        /\ last' = Event("tick")
        /\ ResourceFrame

\* The timer fires and the scheduler finds the model idle for long enough.
SchedulerWake ==
    /\ resources.scheduler = "sleeping"
    /\ idle_timeout_reached(resources.model, settings.model_unload_timeout)
    /\ resources' = [resources EXCEPT !.scheduler = "due"]
    /\ last' = Event("scheduler_wake")
    /\ ResourceFrame

\* The scheduler has the guard.
SchedulerEvict ==
    /\ resources.scheduler = "due"
    /\ resources' = [resources EXCEPT
           !.model = evict_idle(@, settings.model_unload_timeout),
           !.scheduler = "sleeping"]
    /\ last' = [op |-> "scheduler_evict",
                unloaded |-> (resources.model.loaded /\ ~resources'.model.loaded)]
    /\ ResourceFrame

ResourceNext ==
    \/ InitializeEnigo
    \/ AcquireModel
    \/ ReleaseModel
    \/ Tick
    \/ SchedulerWake
    \/ SchedulerEvict

ResourceSpec == ResourceInit /\ [][ResourceNext]_vars

\* C16: once initialize_enigo has succeeded the EnigoState stays managed and
\* every later call returns Ok without constructing another one; a call that
\* fails returns an error and leaves nothing managed.
C16_InitializeEnigoIdempotent ==
    /\ [](last.op = "initialize_enigo" =>
            /\ last.managed =>
                   (last.result = Ok(<<>>) /\ ~last.constructed /\ resources.enigo)
            /\ last.result.kind = "Ok" => resources.enigo
            /\ last.result.kind = "Err" =>
                   (last.result.error # "" /\ ~last.constructed /\ ~resources.enigo))
    /\ [][resources.enigo => resources'.enigo]_vars

\* a call succeeds after a call that failed, and a further call finds the
\* state managed
C16_Witness ==
    /\ last.op = "initialize_enigo"
    /\ last.managed /\ last.result = Ok(<<>>)
    /\ resources.enigo

C16_RetryWitness ==
    /\ last.op = "initialize_enigo"
    /\ last.retry /\ last.constructed /\ resources.enigo

\* C19: the model goes from loaded to unloaded only in a step taken when no
\* transcription holds a reference, the timeout is not Never and the model
\* has been idle for at least the timeout; a model in use is always loaded.
C19_EvictionOnlyWhenIdleAndUnused ==
    /\ [](resources.model.refs > 0 => resources.model.loaded)
    /\ [][(resources.model.loaded /\ ~resources'.model.loaded) =>
              /\ resources.model.refs = 0
              /\ settings.model_unload_timeout # "Never"
              /\ to_seconds(settings.model_unload_timeout) # <<>>
              /\ resources.model.idle >= to_seconds(settings.model_unload_timeout)[1]]_vars

C19_Witness ==
    /\ last.op = "scheduler_evict" /\ last.unloaded
    /\ settings.model_unload_timeout = "Sec5"
    /\ ~resources.model.loaded

\* the scheduler had found the model idle, a transcription took it before the
\* scheduler had the guard, and the model stayed loaded
C19_RaceWitness ==
    /\ last.op = "scheduler_evict" /\ ~last.unloaded
    /\ resources.model.loaded /\ resources.model.refs > 0

\* C20: a start event that arrives while the session is Recording creates no
\* session, leaves the session Recording and keeps the audio collected so far.
C20_StartWhileRecordingKeepsSession ==
    [][(last'.op = "start_session" /\ PipelineState(sessions) = "Recording") =>
           sessions' = sessions]_vars

C20_Witness ==
    /\ last.op = "start_session" /\ last.result = "Busy"
    /\ \E i \in DOMAIN sessions :
           sessions[i].state = "Recording" /\ sessions[i].buffer > 0

(***************************************************************************)
(* shortcut/mod.rs: the provider's API key and the list of its models.     *)
(* fetched is what llm_client::fetch_models answers if it is called.       *)
(***************************************************************************)
change_post_process_api_key_setting(w, provider_id, api_key) ==
    LET stg == get_settings(w.settings, w.platform)
        valid == validate_provider_exists(stg, provider_id)
    IN IF valid.kind = "Err" THEN Stored(stg, valid)
       ELSE Stored(write_settings(stg,
                       [stg EXCEPT !.post_process_api_keys =
                                       Insert(@, provider_id, api_key)]),
                   Ok(<<>>))

Fetched(stg, res, called) == [settings |-> stg, result |-> res, called |-> called]

\* for custom_model in custom_models { if !models.contains(..) { push } }
RECURSIVE add_custom_models(_, _)
add_custom_models(models, custom_models) ==
    IF custom_models = <<>> THEN models
    ELSE add_custom_models(IF Contains(models, Head(custom_models))
                           THEN models
                           ELSE Append(models, Head(custom_models)),
                           Tail(custom_models))

\* fetch_post_process_models returning the error of a failed fetch
fetch_post_process_models_propagating(w, provider_id, fetched) ==
    LET stg == get_settings(w.settings, w.platform)
        found == SelectSeq(stg.post_process_providers,
                           LAMBDA p : p.id = provider_id)
        api_key == IF provider_id \in DOMAIN stg.post_process_api_keys
                   THEN stg.post_process_api_keys[provider_id]
                   ELSE <<>>
        custom_models == IF provider_id \in DOMAIN stg.post_process_custom_models
                         THEN stg.post_process_custom_models[provider_id]
                         ELSE <<>>
    IN IF found = <<>>
       THEN Fetched(stg, Err("Provider '" \o provider_id \o "' not found"), FALSE)
       ELSE IF found[1].id = APPLE_INTELLIGENCE_PROVIDER_ID
       THEN Fetched(stg, Ok(<<APPLE_INTELLIGENCE_DEFAULT_MODEL_ID>>), FALSE)
       ELSE IF trim(api_key) = <<>> /\ found[1].id # "custom"
       THEN Fetched(stg, Ok(add_custom_models(<<>>, custom_models)), FALSE)
       ELSE IF fetched.ok
       THEN Fetched(stg, Ok(add_custom_models(fetched.models, custom_models)), TRUE)
       ELSE Fetched(stg, Err(fetched.error), TRUE)

fetch_post_process_models(w, provider_id, fetched) ==
    LET stg == get_settings(w.settings, w.platform)
        found == SelectSeq(stg.post_process_providers,
                           LAMBDA p : p.id = provider_id)
    IN
    IF found = <<>>
    THEN Fetched(stg, Err("Provider '" \o provider_id \o "' not found"), FALSE)
    ELSE
    LET provider == found[1] IN
    IF provider.id = APPLE_INTELLIGENCE_PROVIDER_ID
    THEN IF w.platform = "macos_aarch64"
         THEN Fetched(stg, Ok(<<APPLE_INTELLIGENCE_DEFAULT_MODEL_ID>>), FALSE)
         ELSE Fetched(stg,
                      Err("Apple Intelligence is only available on Apple silicon Macs running macOS 15 or later."),
                      FALSE)
    ELSE
    LET api_key == IF provider_id \in DOMAIN stg.post_process_api_keys
                   THEN stg.post_process_api_keys[provider_id]
                   ELSE <<>>
        skipped == trim(api_key) = <<>> /\ provider.id # "custom"
        models == IF skipped THEN <<>>
                  ELSE IF fetched.ok THEN fetched.models
                  ELSE <<>>
        custom_models == IF provider_id \in DOMAIN stg.post_process_custom_models
                         THEN stg.post_process_custom_models[provider_id]
                         ELSE <<>>
    IN Fetched(stg, Ok(add_custom_models(models, custom_models)), ~skipped)

(***************************************************************************)
(* The commands around a provider's models.                                *)
(***************************************************************************)
ModelProviderInputs == {"openai", "custom", "ghost_provider"}
FetchProviderInputs ==
    {"openai", "custom", APPLE_INTELLIGENCE_PROVIDER_ID, "ghost_provider"}
ApiKeyInputs == {<<" ">>, <<"k">>}
CustomModelInputs == {<<"7">>, <<" ", "m">>, <<" ">>}
DeletedDefaultInputs == {"strict_proofread"}
FetchResults ==
    {[ok |-> FALSE, models |-> <<>>, error |-> "timeout"],
     [ok |-> TRUE, models |-> <<>>, error |-> ""],
     [ok |-> TRUE, models |-> <<<<"g">>, <<"m">>>>, error |-> ""]}

ModelsInit ==
    /\ platform \in Platforms
    /\ settings = get_default_settings(platform)
    /\ registered = init_shortcuts(settings)
    /\ sessions = << >>
    /\ created = 0
    /\ inflight = {}
    /\ resources = NoResources
    /\ running = NoCalls
    /\ last = Event("init")

SettingsFrame ==
    UNCHANGED <<sessions, created, inflight, registered, platform, resources, running>>

ChangePostProcessApiKey ==
    \E api_key \in ApiKeyInputs :
        LET out == change_post_process_api_key_setting(World, "openai", api_key) IN
        /\ settings' = out.settings
        /\ last' = [op |-> "change_post_process_api_key_setting",
                    result |-> out.result]
        /\ SettingsFrame

ChangeProviderModel ==
    \E provider_id \in ModelProviderInputs, model \in CustomModelInputs :
        LET out == change_post_process_model_setting(World, provider_id, model) IN
        /\ settings' = out.settings
        /\ last' = [op |-> "change_post_process_model_setting",
                    provider_id |-> provider_id, model |-> model,
                    result |-> out.result,
                    custom_before |->
                        IF provider_id \in DOMAIN settings.post_process_custom_models
                        THEN settings.post_process_custom_models[provider_id]
                        ELSE <<>>,
                    unchanged |-> (out.settings = settings)]
        /\ SettingsFrame

DeleteDefaultPrompt ==
    \E id \in DeletedDefaultInputs :
        LET out == delete_post_process_prompt(World, id) IN
        /\ settings' = out.settings
        /\ last' = [op |-> "delete_post_process_prompt", id |-> id,
                    result |-> out.result]
        /\ SettingsFrame

FetchPostProcessModels ==
    \E provider_id \in FetchProviderInputs, fetched \in FetchResults :
        LET out == fetch_post_process_models(World, provider_id, fetched) IN
        /\ settings' = out.settings
        /\ last' = [op |-> "fetch_post_process_models",
                    provider_id |-> provider_id,
                    fetched |-> IF out.called THEN fetched
                                ELSE [ok |-> FALSE, models |-> <<>>, error |-> ""],
                    called |-> out.called,
                    result |-> out.result]
        /\ SettingsFrame

ModelsNext ==
    \/ ChangePostProcessApiKey
    \/ ChangeProviderModel
    \/ DeleteDefaultPrompt
    \/ FetchPostProcessModels

ModelsSpec == ModelsInit /\ [][ModelsNext]_vars

KnownProvider(provider_id) ==
    \E i \in 1..Len(settings.post_process_providers) :
        settings.post_process_providers[i].id = provider_id

StoredCustomModels(provider_id) ==
    IF provider_id \in DOMAIN settings.post_process_custom_models
    THEN settings.post_process_custom_models[provider_id]
    ELSE <<>>

StoredApiKey(provider_id) ==
    IF provider_id \in DOMAIN settings.post_process_api_keys
    THEN settings.post_process_api_keys[provider_id]
    ELSE <<>>

C17_FailedFetchWitness ==
    /\ last.op = "fetch_post_process_models"
    /\ last.called /\ ~last.fetched.ok
    /\ last.result = Ok(<<<<"7">>, <<"m">>>>)

(***************************************************************************)
(* The prompt commands.                                                    *)
(***************************************************************************)
ClockInputs == {1, 2}
NewPromptTexts == {<<"p", PLACEHOLDER>>}
DeleteIdInputs == {"default_improve_transcriptions", "strict_proofread",
                   "prompt_1", "prompt_2", "ghost_prompt"}
UpdateIdInputs == {"prompt_1", "ghost_prompt"}
UpdatedPromptTexts == {<<"q">>}

PromptInit ==
    /\ platform = "other"
    /\ settings = get_default_settings(platform)
    /\ registered = init_shortcuts(settings)
    /\ sessions = << >>
    /\ created = 0
    /\ inflight = {}
    /\ resources = NoResources
    /\ running = NoCalls
    /\ last = Event("init")

BeforePrompts ==
    [prompts |-> settings.post_process_prompts,
     selected |-> settings.post_process_selected_prompt_id]

AddPostProcessPrompt ==
    \E prompt \in NewPromptTexts, now \in ClockInputs :
        LET out == add_post_process_prompt(World, prompt, now) IN
        /\ Len(settings.post_process_prompts)
               < Len(default_post_process_prompts) + MaxAdded
        /\ settings' = out.settings
        /\ last' = [op |-> "add_post_process_prompt", id |-> out.prompt[1].id,
                    result |-> out.result, pre |-> BeforePrompts]
        /\ SettingsFrame

DeletePostProcessPrompt ==
    \E id \in DeleteIdInputs :
        LET out == delete_post_process_prompt(World, id) IN
        /\ settings' = out.settings
        /\ last' = [op |-> "delete_post_process_prompt", id |-> id,
                    result |-> out.result, pre |-> BeforePrompts]
        /\ SettingsFrame

SelectPostProcessPrompt ==
    \E id \in DeleteIdInputs :
        LET out == set_post_process_selected_prompt(World, id) IN
        /\ settings' = out.settings
        /\ last' = [op |-> "set_post_process_selected_prompt", id |-> id,
                    result |-> out.result, pre |-> BeforePrompts]
        /\ SettingsFrame

UpdatePromptText ==
    \E id \in UpdateIdInputs, prompt \in UpdatedPromptTexts :
        LET out == update_post_process_prompt(World, id, prompt) IN
        /\ settings' = out.settings
        /\ last' = [op |-> "update_post_process_prompt", id |-> id,
                    result |-> out.result, pre |-> BeforePrompts]
        /\ SettingsFrame

PromptNext ==
    \/ AddPostProcessPrompt
    \/ UpdatePromptText
    \/ DeletePostProcessPrompt
    \/ SelectPostProcessPrompt

PromptSpec == PromptInit /\ [][PromptNext]_vars

\* The stored prompt list holds all the default prompts but at most the one
\* that the last command deleted: every command reads the settings through
\* get_settings, which puts the missing defaults back before the command acts.
PromptListKeepsDefaults ==
    Len(settings.post_process_prompts) >= Len(default_post_process_prompts) - 1

\* delete_post_process_prompt was called with one prompt stored
LastPromptDeleteAttempted ==
    /\ last.op = "delete_post_process_prompt"
    /\ Len(last.pre.prompts) = 1

\* delete_post_process_prompt called with one prompt stored is refused with
\* "Cannot delete the last prompt" and changes neither the list nor the
\* selection, and the stored list is never empty.
LastPromptIsKept ==
    /\ LastPromptDeleteAttempted =>
           /\ last.result = Err("Cannot delete the last prompt")
           /\ settings.post_process_prompts = last.pre.prompts
           /\ settings.post_process_selected_prompt_id = last.pre.selected
    /\ settings.post_process_prompts # <<>>

(***************************************************************************)
(* shortcut/mod.rs: the setters of the settings that arrive as strings.    *)
(* Each one matches the string against the names it knows and stores the   *)
(* variant; any other string stores the variant of the last match arm.     *)
(* change_overlay_position_setting then repositions the overlay window,    *)
(* which is not part of the stored settings.                               *)
(***************************************************************************)
change_sound_theme_setting_raw(w, theme) ==
    LET stg == get_settings(w.settings, w.platform)
    IN Stored(write_settings(stg, [stg EXCEPT !.sound_theme = theme]), Ok(<<>>))

change_sound_theme_setting(w, theme) ==
    LET stg == get_settings(w.settings, w.platform)
        parsed == CASE theme = "marimba" -> "Marimba"
                    [] theme = "pop" -> "Pop"
                    [] theme = "custom" -> "Custom"
                    [] OTHER -> "Marimba"
    IN Stored(write_settings(stg, [stg EXCEPT !.sound_theme = parsed]), Ok(<<>>))

change_overlay_position_setting(w, position) ==
    LET stg == get_settings(w.settings, w.platform)
        parsed == CASE position = "none" -> "None"
                    [] position = "top" -> "Top"
                    [] position = "bottom" -> "Bottom"
                    [] OTHER -> "Bottom"
    IN Stored(write_settings(stg, [stg EXCEPT !.overlay_position = parsed]),
              Ok(<<>>))

change_paste_method_setting(w, method) ==
    LET stg == get_settings(w.settings, w.platform)
        parsed == CASE method = "ctrl_v" -> "CtrlV"
                    [] method = "direct" -> "Direct"
                    [] method = "none" -> "None"
                    [] method = "shift_insert" -> "ShiftInsert"
                    [] method = "ctrl_shift_v" -> "CtrlShiftV"
                    [] OTHER -> "CtrlV"
    IN Stored(write_settings(stg, [stg EXCEPT !.paste_method = parsed]), Ok(<<>>))

change_clipboard_handling_setting(w, handling) ==
    LET stg == get_settings(w.settings, w.platform)
        parsed == CASE handling = "dont_modify" -> "DontModify"
                    [] handling = "copy_to_clipboard" -> "CopyToClipboard"
                    [] OTHER -> "DontModify"
    IN Stored(write_settings(stg, [stg EXCEPT !.clipboard_handling = parsed]),
              Ok(<<>>))

(***************************************************************************)
(* EnumSpec: the four setters, called with the serialized names of the     *)
(* variants, with names of other enums, and with strings no enum knows.    *)
(***************************************************************************)
Targets == Platforms \cup {"linux"}

SettingStrings ==
    {"marimba", "pop", "custom", "none", "top", "bottom", "ctrl_v", "direct",
     "shift_insert", "ctrl_shift_v", "dont_modify", "copy_to_clipboard",
     "Marimba", "CTRL_V", "", "sideways"}

EnumInit ==
    /\ sessions = <<>>
    /\ created = 0
    /\ inflight = {}
    /\ platform \in Targets
    /\ settings = get_default_settings(platform)
    /\ registered = <<>>
    /\ resources = NoResources
    /\ running = NoCalls
    /\ last = [op |-> "init"]

ChangeSoundThemeSetting ==
    \E theme \in SettingStrings :
        LET out == change_sound_theme_setting(World, theme) IN
        /\ settings' = out.settings
        /\ last' = [op |-> "change_sound_theme_setting", input |-> theme,
                    result |-> out.result]
        /\ SettingsFrame

ChangeOverlayPositionSetting ==
    \E position \in SettingStrings :
        LET out == change_overlay_position_setting(World, position) IN
        /\ settings' = out.settings
        /\ last' = [op |-> "change_overlay_position_setting",
                    input |-> position, result |-> out.result]
        /\ SettingsFrame

ChangePasteMethodSetting ==
    \E method \in SettingStrings :
        LET out == change_paste_method_setting(World, method) IN
        /\ settings' = out.settings
        /\ last' = [op |-> "change_paste_method_setting", input |-> method,
                    result |-> out.result]
        /\ SettingsFrame

ChangeClipboardHandlingSetting ==
    \E handling \in SettingStrings :
        LET out == change_clipboard_handling_setting(World, handling) IN
        /\ settings' = out.settings
        /\ last' = [op |-> "change_clipboard_handling_setting",
                    input |-> handling, result |-> out.result]
        /\ SettingsFrame

EnumNext ==
    \/ ChangeSoundThemeSetting
    \/ ChangeOverlayPositionSetting
    \/ ChangePasteMethodSetting
    \/ ChangeClipboardHandlingSetting

EnumSpec == EnumInit /\ [][EnumNext]_vars

\* The serialized name of each variant (serde rename_all on the enums).
SerializedName(variant) ==
    CASE variant = "Marimba" -> "marimba"
      [] variant = "Pop" -> "pop"
      [] variant = "Custom" -> "custom"
      [] variant = "None" -> "none"
      [] variant = "Top" -> "top"
      [] variant = "Bottom" -> "bottom"
      [] variant = "CtrlV" -> "ctrl_v"
      [] variant = "Direct" -> "direct"
      [] variant = "ShiftInsert" -> "shift_insert"
      [] variant = "CtrlShiftV" -> "ctrl_shift_v"
      [] variant = "DontModify" -> "dont_modify"
      [] variant = "CopyToClipboard" -> "copy_to_clipboard"

\* What a setter of an enum with this fallback is claimed to store for input.
Decoded(enum, fallback, input) ==
    IF \E v \in enum : SerializedName(v) = input
    THEN CHOOSE v \in enum : SerializedName(v) = input
    ELSE fallback

\* C21: each string-encoded enum setter decodes every input string: a known
\* name stores the variant of that name, any other string stores the fixed
\* default (marimba, bottom, ctrl_v, dont_modify), the call returns Ok, and
\* the stored value of each of the four settings is always a variant of its
\* enum.
C21_EnumSettersDecodeEveryString ==
    /\ settings.sound_theme \in SoundTheme
    /\ settings.overlay_position \in OverlayPosition
    /\ settings.paste_method \in PasteMethod
    /\ settings.clipboard_handling \in ClipboardHandling
    /\ last.op = "change_sound_theme_setting" =>
           /\ last.result.kind = "Ok"
           /\ settings.sound_theme = Decoded(SoundTheme, "Marimba", last.input)
    /\ last.op = "change_overlay_position_setting" =>
           /\ last.result.kind = "Ok"
           /\ settings.overlay_position =
                  Decoded(OverlayPosition, "Bottom", last.input)
    /\ last.op = "change_paste_method_setting" =>
           /\ last.result.kind = "Ok"
           /\ settings.paste_method = Decoded(PasteMethod, "CtrlV", last.input)
    /\ last.op = "change_clipboard_handling_setting" =>
           /\ last.result.kind = "Ok"
           /\ settings.clipboard_handling =
                  Decoded(ClipboardHandling, "DontModify", last.input)

\* an unknown string fell back to the default over a different stored value
C21_Witness ==
    /\ last.op = "change_paste_method_setting"
    /\ last.input = "sideways"
    /\ settings.paste_method = "CtrlV"
    /\ settings.sound_theme = "Pop"
    /\ settings.overlay_position = "Top"
    /\ settings.clipboard_handling = "CopyToClipboard"

\* a name only another enum knows fell back on linux, where the default
\* overlay position is None and the fallback is Bottom
C21_ForeignNameWitness ==
    /\ last.op = "change_overlay_position_setting"
    /\ last.input = "ctrl_v"
    /\ platform = "linux"
    /\ settings.overlay_position = "Bottom"

(***************************************************************************)
(* Commands that run at the same time.  Nothing in shortcut/mod.rs,        *)
(* settings.rs or commands/mod.rs takes a lock: a setting command is a     *)
(* store read (get_settings) followed by a store write (write_settings),   *)
(* and initialize_enigo is a look at the managed state, a construction and *)
(* app.manage.  The store and the state manager make each single access    *)
(* atomic, so a running invocation is modelled between its accesses:       *)
(* running[i] = [cmd, arg, local, pc, result], local being what the        *)
(* invocation holds on its stack (an Option as everywhere), pc the access  *)
(* it makes next.                                                          *)
(***************************************************************************)
RunningCall(cmd, arg, local, pc, result) ==
    [cmd |-> cmd, arg |-> arg, local |-> local, pc |-> pc, result |-> result]

\* the assignment each command makes to its copy of the settings
change_ptt_setting(stg, enabled) == [stg EXCEPT !.push_to_talk = enabled]

change_audio_feedback_setting(stg, enabled) ==
    [stg EXCEPT !.audio_feedback = enabled]

BoolSettingCommands == {"change_ptt_setting", "change_audio_feedback_setting"}

modified_settings(call) ==
    IF call.cmd = "change_ptt_setting"
    THEN change_ptt_setting(call.local[1], call.arg[1])
    ELSE change_audio_feedback_setting(call.local[1], call.arg[1])

\* app.manage keeps the state that is already managed and drops the new one
manage(managed) == TRUE

ConcurrentInit ==
    /\ sessions = <<>>
    /\ created = 0
    /\ inflight = {}
    /\ platform \in Platforms
    /\ settings = get_default_settings(platform)
    /\ registered = <<>>
    /\ resources = NoResources
    /\ running = NoCalls
    /\ last = [op |-> "init"]

ConcurrentFrame == UNCHANGED <<sessions, created, inflight, registered, platform>>

\* a setting command starts: let mut settings = get_settings(&app)
SettingCommandReads ==
    \E cmd \in BoolSettingCommands, enabled \in BOOLEAN :
        /\ Len(running) < MaxCalls
        /\ settings' = get_settings(settings, platform)
        /\ running' = Append(running,
               RunningCall(cmd, <<enabled>>,
                           <<get_settings(settings, platform)>>, "write", <<>>))
        /\ last' = [op |-> "get_settings"]
        /\ UNCHANGED resources
        /\ ConcurrentFrame

\* it assigns its field and ends: write_settings(&app, settings); Ok(())
SettingCommandWrites ==
    \E i \in 1..Len(running) :
        /\ running[i].cmd \in BoolSettingCommands
        /\ running[i].pc = "write"
        /\ settings' = write_settings(settings, modified_settings(running[i]))
        /\ running' = [running EXCEPT ![i].pc = "returned",
                                      ![i].result = <<Ok(<<>>)>>]
        /\ last' = [op |-> "write_settings"]
        /\ UNCHANGED resources
        /\ ConcurrentFrame

\* initialize_enigo starts: app.try_state::<EnigoState>().is_some()
InitializeEnigoChecks ==
    /\ Len(running) < MaxCalls
    /\ running' = Append(running,
           IF resources.enigo
           THEN RunningCall("initialize_enigo", <<>>, <<>>, "returned",
                            <<Ok(<<>>)>>)
           ELSE RunningCall("initialize_enigo", <<>>, <<>>, "new", <<>>))
    /\ last' = [op |-> "try_state"]
    /\ UNCHANGED <<settings, resources>>
    /\ ConcurrentFrame

\* EnigoState::new(): a state, or an error that ends the call
InitializeEnigoConstructs ==
    \E i \in 1..Len(running), new_state \in NewStateInputs :
        /\ running[i].cmd = "initialize_enigo"
        /\ running[i].pc = "new"
        /\ running' =
               IF new_state = <<>>
               THEN [running EXCEPT ![i].local = <<"EnigoState">>,
                                    ![i].pc = "manage"]
               ELSE [running EXCEPT
                        ![i].pc = "returned",
                        ![i].result =
                            <<Err("Failed to initialize input system: "
                                  \o new_state[1])>>]
        /\ last' = [op |-> "EnigoState::new"]
        /\ UNCHANGED <<settings, resources>>
        /\ ConcurrentFrame

\* app.manage(enigo_state); Ok(())
InitializeEnigoManages ==
    \E i \in 1..Len(running) :
        /\ running[i].cmd = "initialize_enigo"
        /\ running[i].pc = "manage"
        /\ resources' = [resources EXCEPT !.enigo = manage(resources.enigo)]
        /\ running' = [running EXCEPT ![i].pc = "returned",
                                      ![i].result = <<Ok(<<>>)>>]
        /\ last' = [op |-> "manage"]
        /\ UNCHANGED settings
        /\ ConcurrentFrame

ConcurrentNext ==
    \/ SettingCommandReads
    \/ SettingCommandWrites
    \/ InitializeEnigoChecks
    \/ InitializeEnigoConstructs
    \/ InitializeEnigoManages

ConcurrentSpec == ConcurrentInit /\ [][ConcurrentNext]_vars

Returned(i) == running[i].pc = "returned"

SettingCalls == {i \in 1..Len(running) : running[i].cmd \in BoolSettingCommands}

\* the value of the field a setting command names
FieldOf(stg, cmd) ==
    IF cmd = "change_ptt_setting" THEN stg.push_to_talk ELSE stg.audio_feedback

OtherFieldOf(stg, cmd) ==
    IF cmd = "change_ptt_setting" THEN stg.audio_feedback ELSE stg.push_to_talk

\* C22: no update is lost.  Once two setting commands that change different
\* fields have both returned, in whatever order their reads and writes were
\* taken, the stored settings hold both new values; and what a command
\* writes differs from what it read in the field it names only.
C22_NoLostUpdate ==
    /\ \A i \in SettingCalls, j \in SettingCalls :
           (/\ Returned(i) /\ Returned(j)
            /\ running[i].cmd # running[j].cmd
            /\ \A k \in SettingCalls :
                   running[k].cmd = running[i].cmd => k = i) =>
               FieldOf(settings, running[i].cmd) = running[i].arg[1]
    /\ \A i \in SettingCalls :
           OtherFieldOf(modified_settings(running[i]), running[i].cmd) =
               OtherFieldOf(running[i].local[1], running[i].cmd)

\* the interleaving that loses an update: both commands read before either
\* wrote, and the second write carries the first command's field as it was
C22_LostUpdate ==
    /\ Len(running) = 2
    /\ running[1].cmd = "change_ptt_setting" /\ running[1].arg = <<FALSE>>
    /\ running[2].cmd = "change_audio_feedback_setting"
    /\ running[2].arg = <<TRUE>>
    /\ Returned(1) /\ Returned(2)
    /\ settings.push_to_talk = TRUE
    /\ settings.audio_feedback = TRUE

EnigoCalls == {i \in 1..Len(running) : running[i].cmd = "initialize_enigo"}

Constructed == {i \in EnigoCalls : running[i].local = <<"EnigoState">>}

\* C23: the keyboard-simulation resource is initialized at most once: under
\* any interleaving of concurrent initialize_enigo calls at most one
\* EnigoState is constructed, and the state stays managed once a call has
\* returned Ok, whatever a failing call does afterwards.
C23_InitializedAtMostOnce ==
    /\ Cardinality(Constructed) <= 1
    /\ (\E i \in EnigoCalls : Returned(i) /\ running[i].result[1].kind = "Ok")
           => resources.enigo

\* two calls both found nothing managed and both constructed a state
C23_ConstructedTwice ==
    /\ Len(running) = 2
    /\ Constructed = {1, 2}
    /\ Returned(1) /\ Returned(2)
    /\ resources.enigo

(***************************************************************************)
(* ModelUnloadTimeout as a number of seconds, for the stored timeout of    *)
(* every start of ResourceSpec.                                            *)
(***************************************************************************)
StoredTimeout == settings.model_unload_timeout

\* C24: to_seconds maps Never to none, Immediately to 0, Sec5 to 5, Min2 to
\* 120, Min5 to 300, Min10 to 600, Min15 to 900 and Hour1 to 3600; and for
\* every variant other than Sec5 for which to_minutes is defined, to_seconds
\* is 60 times to_minutes.
C24_TimeoutInSeconds ==
    /\ StoredTimeout \in ModelUnloadTimeout
    /\ to_seconds(StoredTimeout) =
           CASE StoredTimeout = "Never" -> <<>>
             [] StoredTimeout = "Immediately" -> <<0>>
             [] StoredTimeout = "Sec5" -> <<5>>
             [] StoredTimeout = "Min2" -> <<120>>
             [] StoredTimeout = "Min5" -> <<300>>
             [] StoredTimeout = "Min10" -> <<600>>
             [] StoredTimeout = "Min15" -> <<900>>
             [] StoredTimeout = "Hour1" -> <<3600>>
    /\ (StoredTimeout # "Sec5" /\ to_minutes(StoredTimeout) # <<>>) =>
           to_seconds(StoredTimeout) = <<60 * to_minutes(StoredTimeout)[1]>>

\* the scheduler unloaded the model under Min2 once it had been idle for the
\* 120 seconds to_seconds gives
C24_Witness ==
    /\ StoredTimeout = "Min2"
    /\ last.op = "scheduler_evict"
    /\ last.unloaded

\* under Hour1 the loaded, unused model is kept however long the model idles
C24_HourWitness ==
    /\ StoredTimeout = "Hour1"
    /\ resources.model.loaded
    /\ resources.model.refs = 0
    /\ resources.model.idle = MaxIdle
    /\ resources.scheduler = "sleeping"

(***************************************************************************)
(* The stored prompts and the stored selection under PromptSpec.           *)
(***************************************************************************)
PromptIds(prompts) == {prompts[i].id : i \in 1..Len(prompts)}

StoredPrompts == settings.post_process_prompts

StoredSelection == settings.post_process_selected_prompt_id

\* the prompts the last command read: the stored ones as get_settings
\* returned them
PromptsRead ==
    get_settings([settings EXCEPT !.post_process_prompts = last.pre.prompts],
                 platform).post_process_prompts

PromptCommands ==
    {"add_post_process_prompt", "update_post_process_prompt",
     "delete_post_process_prompt", "set_post_process_selected_prompt"}

C25_RejectWitness ==
    /\ last.op = "set_post_process_selected_prompt"
    /\ last.id = "ghost_prompt"
    /\ last.result.kind = "Err"
    /\ StoredSelection = <<"strict_proofread">>

\* the first prompt itself was selected and deleted
C25_FirstDeletedWitness ==
    /\ last.op = "delete_post_process_prompt"
    /\ last.id = "default_improve_transcriptions"
    /\ last.result.kind = "Ok"
    /\ last.pre.selected = <<"default_improve_transcriptions">>
    /\ StoredSelection # <<>>

\* C26: add_post_process_prompt generates a unique id: the id of the prompt
\* it adds is the id of no prompt stored before, also when two calls fall
\* into the same millisecond, so no two stored prompts share an id.
C26_AddedIdIsUnique ==
    /\ last.op = "add_post_process_prompt" =>
           last.id \notin PromptIds(last.pre.prompts)
    /\ \A i, j \in 1..Len(StoredPrompts) :
           StoredPrompts[i].id = StoredPrompts[j].id => i = j

\* two prompts added in the same millisecond are stored under one id
C26_SameMillisecond ==
    /\ last.op = "add_post_process_prompt"
    /\ last.id = "prompt_1"
    /\ Len(StoredPrompts) = Len(default_post_process_prompts) + 2
    /\ StoredPrompts[Len(StoredPrompts)].id = "prompt_1"
    /\ StoredPrompts[Len(StoredPrompts) - 1].id = "prompt_1"

(***************************************************************************)
(* The stored models under ModelsSpec.                                     *)
(***************************************************************************)
CustomModelLists ==
    {settings.post_process_custom_models[id] :
         id \in DOMAIN settings.post_process_custom_models}

NoDuplicates(list) ==
    \A i, j \in 1..Len(list) : list[i] = list[j] => i = j

\* What holds of change_post_process_model_setting in every state: for a
\* known provider the model is stored as given and its trimmed form joins
\* the custom list once; an unknown provider gets an error; no custom list
\* holds an entry twice or a blank entry.
ModelSettingStoresModel ==
    /\ \A list \in CustomModelLists :
           /\ NoDuplicates(list)
           /\ \A i \in 1..Len(list) : HasText(list[i]) /\ trim(list[i]) = list[i]
    /\ last.op = "change_post_process_model_setting" =>
           IF KnownProvider(last.provider_id)
           THEN /\ last.result.kind = "Ok"
                /\ settings.post_process_models[last.provider_id] = last.model
                /\ StoredCustomModels(last.provider_id) =
                       IF HasText(last.model)
                          /\ ~Contains(last.custom_before, trim(last.model))
                       THEN Append(last.custom_before, trim(last.model))
                       ELSE last.custom_before
           ELSE /\ last.result.kind = "Err"
                /\ last.provider_id \notin DOMAIN settings.post_process_models
                /\ last.provider_id \notin
                       DOMAIN settings.post_process_custom_models

\* C27: change_post_process_model_setting stores the model as given and
\* records its trimmed, non-empty form in the provider's custom list only if
\* it is not there yet, so no custom list holds a duplicate or a blank entry;
\* a call with an unknown provider id returns an error and leaves the stored
\* settings unchanged.
C27_UnknownProviderChangesNothing ==
    /\ ModelSettingStoresModel
    /\ (/\ last.op = "change_post_process_model_setting"
        /\ ~KnownProvider(last.provider_id)) => last.unchanged

\* the call for an unknown provider put a deleted default prompt back
C27_RepairedOnError ==
    /\ last.op = "change_post_process_model_setting"
    /\ last.provider_id = "ghost_provider"
    /\ last.result.kind = "Err"
    /\ ~last.unchanged

\* a model that is already in the custom list in its trimmed form
C27_TrimmedTwice ==
    /\ last.op = "change_post_process_model_setting"
    /\ last.provider_id = "openai"
    /\ last.model = <<" ", "m">>
    /\ last.custom_before = <<<<"7">>, <<"m">>>>
    /\ StoredCustomModels("openai") = <<<<"7">>, <<"m">>>>

\* the prompts the next get_settings call returns
PromptsReadNext == get_settings(settings, platform).post_process_prompts

\* C28: after delete_post_process_prompt(id) returns Ok, the prompt list read
\* by the next get_settings call holds no prompt with that id and is exactly
\* one entry shorter than the list read before, for the ids of the ten
\* default prompts as for any other id.
C28_DeletedPromptStaysDeleted ==
    (last.op = "delete_post_process_prompt" /\ last.result.kind = "Ok") =>
        /\ last.id \notin PromptIds(PromptsReadNext)
        /\ Len(PromptsReadNext) = Len(PromptsRead) - 1

\* a deleted default prompt is back, at the end of the list, on the next read
C28_DefaultComesBack ==
    /\ last.op = "delete_post_process_prompt"
    /\ last.id = "strict_proofread"
    /\ last.result.kind = "Ok"
    /\ "strict_proofread" \notin PromptIds(StoredPrompts)
    /\ PromptsReadNext[Len(PromptsReadNext)].id = "strict_proofread"
    /\ Len(PromptsReadNext) = Len(PromptsRead)

\* a deleted added prompt stays deleted
C28_AddedStaysDeleted ==
    /\ last.op = "delete_post_process_prompt"
    /\ last.id = "prompt_1"
    /\ last.result.kind = "Ok"
    /\ "prompt_1" \notin PromptIds(PromptsReadNext)
    /\ Len(PromptsReadNext) = Len(PromptsRead) - 1

(***************************************************************************)
(* change_binding that does not succeed, and reset_binding, under Spec.    *)
(***************************************************************************)
Succeeded(result) == result.kind = "Ok" /\ result.success

\* C29: a change_binding for an id other than cancel that does not succeed
\* leaves the stored bindings exactly as they were; for an unknown id it
\* makes no unregister, validate or register call; when the new combination
\* fails validation the old one has been unregistered and stays so, while the
\* stored current_binding still names it.
C29_FailedChangeKeepsStoredBindings ==
    (/\ last.op = "change_binding"
     /\ last.id # "cancel"
     /\ ~Succeeded(last.result)) =>
        /\ settings.bindings = last.pre.bindings
        /\ last.id \notin DOMAIN last.pre.bindings =>
               /\ last.calls = <<>>
               /\ registered = last.pre.registered
               /\ last.result.kind = "Ok"
        /\ (last.id \in DOMAIN last.pre.bindings /\ last.binding \in InvalidChords) =>
               /\ last.result.kind = "Err"
               /\ last.calls = <<Call("unregister", TRUE), Call("validate", FALSE)>>
               /\ registered[last.id] = NONE
               /\ settings.bindings[last.id].current_binding =
                      last.pre.bindings[last.id].current_binding
        /\ (last.id \in DOMAIN last.pre.bindings /\ last.binding \in ValidChords) =>
               /\ Len(last.calls) = 3
               /\ ~last.calls[3].ok

\* the new combination failed validation: the live registration of the old
\* one is gone and the settings still name it
C29_Witness ==
    /\ last.op = "change_binding"
    /\ last.id = "transcribe"
    /\ last.binding \in InvalidChords
    /\ last.pre.registered["transcribe"] = "ctrl+space"
    /\ registered["transcribe"] = NONE
    /\ settings.bindings["transcribe"].current_binding = "ctrl+space"

\* the registration of a valid new combination failed
C29_RegistrationFailedWitness ==
    /\ last.op = "change_binding"
    /\ last.id = "transcribe"
    /\ last.binding = "escape"
    /\ ~Succeeded(last.result)
    /\ Len(last.calls) = 3
    /\ settings.bindings["transcribe"].current_binding = "ctrl+space"

\* an unknown id
C29_UnknownIdWitness ==
    /\ last.op = "change_binding"
    /\ last.id \in UnknownIds
    /\ ~Succeeded(last.result)
    /\ last.calls = <<>>

\* the world the last binding command started in
WorldBefore ==
    [settings |-> [settings EXCEPT !.bindings = last.pre.bindings],
     registered |-> last.pre.registered,
     platform |-> platform]

\* What holds of reset_binding in every state: for a stored binding it does
\* what change_binding does with the default combination, and no command
\* changes a default_binding.
ResetStoredBinding ==
    /\ \A id \in BindingIds :
           settings.bindings[id].default_binding =
               DefaultBindings(platform)[id].default_binding
    /\ (last.op = "reset_binding" /\ last.id \in DOMAIN last.pre.bindings) =>
           LET expected == change_binding(WorldBefore, last.id,
                               last.pre.bindings[last.id].default_binding)
           IN /\ last.result = expected.result
              /\ last.calls = expected.calls
              /\ settings = expected.settings
              /\ registered = expected.registered
              /\ Succeeded(last.result) =>
                     settings.bindings[last.id].current_binding =
                         settings.bindings[last.id].default_binding

\* C30: reset_binding(id) behaves as change_binding(id, default_binding of
\* id): on success the stored current_binding equals default_binding, no
\* command changes a default_binding, and for an id that is not among the
\* stored bindings it returns the 'not found' failure response of
\* change_binding instead of aborting.
C30_ResetIsChangeToDefault ==
    /\ ResetStoredBinding
    /\ (last.op = "reset_binding" /\ last.id \notin DOMAIN last.pre.bindings) =>
           /\ last.result =
                  ResponseFailed("Binding with id '" \o last.id \o "' not found")
           /\ last.result = change_binding(WorldBefore, last.id, NONE).result

\* reset_binding for an id that is not stored aborted
C30_UnknownIdAborts ==
    /\ last.op = "reset_binding"
    /\ last.id \in UnknownIds
    /\ last.result.kind = "Panic"

\* a changed binding was reset to its default
C30_ResetWitness ==
    /\ last.op = "reset_binding"
    /\ last.id = "cancel"
    /\ Succeeded(last.result)
    /\ last.pre.bindings["cancel"].current_binding = "ctrl+space"
    /\ settings.bindings["cancel"].current_binding = "escape"

====
